---- MODULE Spec2Model ----
(***************************************************************************)
(* State-machine model of OMETiffImage (src/src/ometiffimage.cpp): the     *)
(* dimension model (raw vs. effective dimensions, channel interleaving of  *)
(* raw TIFFs), the plane indexer and the plane loop of saveWithMetadata    *)
(* (Spec); the metadata store, extractMetadata and the store written by    *)
(* saveWithMetadata (MetaSpec); the conversion of a decoded plane to a     *)
(* displayable image (NormSpec); the parameter widget and the loading of   *)
(* a parameter file (ParamSpec); the main window's navigation and          *)
(* interleave controls (UiSpec); saveCurrentFile with its worker thread    *)
(* and the files it leaves on disk (SaveSpec, FairSaveSpec).               *)
(*                                                                         *)
(* A plane's pixel content is identified by its physical index in the      *)
(* source file; the decoder (ome-files FormatReader) is modelled by the    *)
(* file it has open and its series/resolution cursor.                      *)
(***************************************************************************)
EXTENDS Integers, Sequences, FiniteSets, TLC

VARIABLES d, rd, last, sv, ms, nv, mw, wk, disk

\* the main window and its widgets, the save worker and its thread, the files on disk
gui == <<mw, wk, disk>>

vars == <<d, rd, last, sv, ms, nv, gui>>

(***************************************************************************)
(* Bounds of the model.                                                    *)
(***************************************************************************)
MaxPlanes == 4
MaxChan == 4
MaxCoord == 3
MaxTime == 1
MaxSeries == 1
MaxResolution == 1

(***************************************************************************)
(* Files on disk, as the decoder reports them.  ome: the name ends in      *)
(* .ome.tiff/.ome.tif; z, c, t: getSizeZ, getEffectiveSizeC, getSizeT;     *)
(* order: the dimension order the decoder's getIndex follows.              *)
(***************************************************************************)
PlaneW == 2
PlaneH == 2

Files ==
    {f \in [ome : BOOLEAN, z : 1..MaxPlanes, c : 1..MaxPlanes, t : 1..MaxPlanes,
             order : {"XYZCT", "XYCZT"}] : f.z * f.c * f.t <= MaxPlanes}

NoFile == [ome |-> FALSE, z |-> 0, c |-> 0, t |-> 0, order |-> "none"]

\* the file's name: open() looks at nothing but its suffix
FileName(f) == IF f.ome THEN "image.ome.tiff" ELSE "image.tiff"

\* reader->getImageCount() for a file of single-sample channels
FileImageCount(f) == f.z * f.c * f.t

(***************************************************************************)
(* OMETiffImage::Private after construction.                               *)
(***************************************************************************)
PrivateInit ==
    [reader |-> FALSE, currentFilename |-> "", isOmeTiff |-> TRUE,
     series |-> 0, resolution |-> 0, interleavedChannels |-> 1,
     rawSizeX |-> 0, rawSizeY |-> 0, rawSizeZ |-> 0, rawSizeT |-> 0,
     rawSizeC |-> 0, rawImageCount |-> 0, rawRGBChannelCount |-> 0,
     sizeX |-> 0, sizeY |-> 0, sizeZ |-> 0, sizeT |-> 0, sizeC |-> 0,
     imageCount |-> 0, rgbChannelCount |-> 0]


\* applyInterleavingInterpretation leaving sizeT at the decoder's value
applyInterleavingInterpretation_keepsT(p) ==
    LET base == [p EXCEPT !.sizeX = p.rawSizeX, !.sizeY = p.rawSizeY,
                          !.rgbChannelCount = p.rawRGBChannelCount]
    IN  IF p.interleavedChannels > 1 /\ ~p.isOmeTiff
        THEN [base EXCEPT !.sizeC = p.interleavedChannels,
                          !.sizeZ = p.rawImageCount \div p.interleavedChannels,
                          !.sizeT = p.rawSizeT,
                          !.imageCount = p.rawImageCount]
        ELSE [base EXCEPT !.sizeZ = p.rawSizeZ,
                          !.sizeT = p.rawSizeT,
                          !.sizeC = p.rawSizeC,
                          !.imageCount = p.rawImageCount]

\* Private::applyInterleavingInterpretation
applyInterleavingInterpretation(p) ==
    LET base == [p EXCEPT !.sizeX = p.rawSizeX, !.sizeY = p.rawSizeY,
                          !.rgbChannelCount = p.rawRGBChannelCount]
    IN  IF p.interleavedChannels > 1 /\ ~p.isOmeTiff
        THEN [base EXCEPT !.sizeC = p.interleavedChannels,
                          !.sizeZ = p.rawImageCount \div p.interleavedChannels,
                          !.sizeT = 1,
                          !.imageCount = p.rawImageCount]
        ELSE [base EXCEPT !.sizeZ = p.rawSizeZ,
                          !.sizeT = p.rawSizeT,
                          !.sizeC = p.rawSizeC,
                          !.imageCount = p.rawImageCount]

(***************************************************************************)
(* Private::updateCachedDimensions on file f.  The decoder calls are       *)
(* numbered in program order; failAt = 0 means no call throws, failAt = k  *)
(* means call k throws, so the assignments before it have been made and    *)
(* applyInterleavingInterpretation is not reached.                         *)
(***************************************************************************)
QSetSeries == 2
QSetResolution == 3
QGetSizeX == 4
QGetSizeY == 5
QGetSizeZ == 6
QGetSizeT == 7
QGetEffectiveSizeC == 8
QGetImageCount == 9
QGetRGBChannelCount == 10
QGetPixelType == 11
QRestoreSeries == 12

Done(failAt, k) == failAt = 0 \/ failAt > k

updateCachedDimensions(p, f, failAt) ==
    LET q == [p EXCEPT
                !.rawSizeX = IF Done(failAt, QGetSizeX) THEN PlaneW ELSE @,
                !.rawSizeY = IF Done(failAt, QGetSizeY) THEN PlaneH ELSE @,
                !.rawSizeZ = IF Done(failAt, QGetSizeZ) THEN f.z ELSE @,
                !.rawSizeT = IF Done(failAt, QGetSizeT) THEN f.t ELSE @,
                !.rawSizeC = IF Done(failAt, QGetEffectiveSizeC) THEN f.c ELSE @,
                !.rawImageCount = IF Done(failAt, QGetImageCount) THEN FileImageCount(f) ELSE @,
                !.rawRGBChannelCount = IF Done(failAt, QGetRGBChannelCount) THEN 1 ELSE @]
    IN  IF failAt = 0 THEN applyInterleavingInterpretation(q) ELSE q

\* OMETiffImage::close, on the Private struct
closed(p) ==
    [p EXCEPT !.reader = FALSE, !.currentFilename = "",
              !.interleavedChannels = 1,
              !.rawSizeX = 0, !.rawSizeY = 0, !.rawSizeZ = 0, !.rawSizeT = 0,
              !.rawSizeC = 0, !.rawImageCount = 0,
              !.sizeX = 0, !.sizeY = 0, !.sizeZ = 0, !.sizeT = 0, !.sizeC = 0,
              !.imageCount = 0]

\* the decoder with no file
NoReader == [file |-> NoFile, series |-> 0, resolution |-> 0]

\* the record of the last call made on the OMETiffImage and its result
Call(op, n, z, c, t, ok, err, val) ==
    [op |-> op, n |-> n, z |-> z, c |-> c, t |-> t, ok |-> ok, err |-> err, val |-> val]

SaveIdle ==
    [pc |-> "idle", inter |-> FALSE, t |-> 0, c |-> 0, z |-> 0, outPlane |-> 0,
     plane |-> 0, buf |-> 0, reads |-> <<>>, writes |-> <<>>, progress |-> <<>>,
     metaZ |-> 0, metaC |-> 0, metaT |-> 0, metaOrder |-> "none",
     result |-> "none", message |-> "", threw |-> "none", cancelled |-> FALSE,
     path |-> "none", opened |-> FALSE, oldSeries |-> 0, oldResolution |-> 0]

\* no metadata extracted or written yet
MetaIdle == [phase |-> "none"]

\* no pixel buffer handed to the visitor yet
NormIdle == [phase |-> "none"]

\* the axes of the navigation sliders
Axes == {"Z", "C", "T"}

\* MainWindow after construction: position members 0, the sliders and spin
\* boxes at 0 and disabled, the interleave spin box at 1 and disabled
MainWindowInit ==
    [m_current |-> [a \in Axes |-> 0],
     slider |-> [a \in Axes |-> 0], spinBox |-> [a \in Axes |-> 0],
     sliderMax |-> [a \in Axes |-> 0],
     navigationEnabled |-> FALSE, spinCInterleaveCount |-> 1,
     groupTiffInterpretation |-> FALSE]

\* the paths saveCurrentFile touches: the file the image was opened from, the
\* <basename>.ome.tiff next to a raw TIFF, the file in the temporary directory
Paths == {"orig", "dest", "temp"}

\* what a path holds: nothing, the image as opened, a complete saved copy, a
\* partly written file, some other file
NoDisk == [p \in Paths |-> "none"]

\* no save is running.  pc: where saveCurrentFile is; thread: the QThread
\* (started: running doSave, exec: in its event loop); worker: doSave before or
\* after its emit; exited: quit() was called; queued: a finished(ok, message)
\* event waits for the GUI thread; cancelAt: where the worker was when cancel()
\* ran; observed: a callback returned false; before: the disk at entry
NoWorker ==
    [pc |-> "idle", quicksave |-> FALSE, wasOmeTiff |-> FALSE, dest |-> "orig",
     thread |-> "none", worker |-> "none", exited |-> FALSE, m_cancelled |-> FALSE,
     cancelAt |-> "none", queued |-> FALSE, emitted |-> 0, ok |-> FALSE,
     message |-> "", result |-> "none", observed |-> FALSE, success |-> FALSE,
     errorMessage |-> "", renamed |-> FALSE, before |-> NoDisk]

Init ==
    /\ d = PrivateInit
    /\ rd = NoReader
    /\ last = Call("none", 0, 0, 0, 0, TRUE, "", 0)
    /\ sv = SaveIdle
    /\ ms = MetaIdle
    /\ nv = NormIdle
    /\ mw = MainWindowInit
    /\ wk = NoWorker
    /\ disk = NoDisk

Idle == sv.pc = "idle"

(***************************************************************************)
(* OMETiffImage::open(filename).  exists: QFileInfo::exists; failAt: the   *)
(* decoder call that throws (1 = setId, 2.. = updateCachedDimensions).     *)
(***************************************************************************)
QSetId == 1

\* the Private struct after open() has reset it, noted the file and queried
\* the dimensions
openHandle(p, f, failAt) ==
    updateCachedDimensions([closed(p) EXCEPT !.isOmeTiff = f.ome,
                                             !.currentFilename = FileName(f),
                                             !.series = 0, !.resolution = 0],
                           f, failAt)

open(f, exists, failAt) ==
    /\ Idle
    /\ IF ~exists
       THEN /\ d' = closed(d)
            /\ rd' = NoReader
            /\ last' = Call("open", 0, 0, 0, 0, FALSE, "FileNotFound", 0)
       ELSE IF failAt = QSetId
       THEN /\ d' = closed(d)
            /\ rd' = NoReader
            /\ last' = Call("open", 0, 0, 0, 0, FALSE, "DecodeFailure", 0)
       ELSE LET q == openHandle(d, f, failAt)
            IN  IF failAt = 0
                THEN /\ d' = [q EXCEPT !.reader = TRUE]
                     /\ rd' = [file |-> f, series |-> 0, resolution |-> 0]
                     /\ last' = Call("open", 0, 0, 0, 0, TRUE, "", 0)
                ELSE /\ d' = [q EXCEPT !.reader = FALSE]
                     /\ rd' = NoReader
                     /\ last' = Call("open", 0, 0, 0, 0, FALSE, "DecodeFailure", 0)
    /\ UNCHANGED <<sv, ms, nv, gui>>

\* the decoder calls of open() at which a throw is modelled
FailPoints == {QSetId, QGetSizeT, QGetRGBChannelCount}

Open ==
    \/ \E f \in Files : open(f, TRUE, 0)
    \/ open(NoFile, FALSE, 0)
    \/ \E f \in Files, failAt \in FailPoints : open(f, TRUE, failAt)

\* OMETiffImage::close()
Close ==
    /\ Idle
    /\ d' = closed(d)
    /\ rd' = NoReader
    /\ last' = Call("close", 0, 0, 0, 0, TRUE, "", 0)
    /\ UNCHANGED <<sv, ms, nv, gui>>

(***************************************************************************)
(* OMETiffImage::setInterleavedChannelCount(channelCount).  The two error  *)
(* messages of the code are named by the error kinds of the error          *)
(* taxonomy: "Cannot set interleaved channel count for OME-TIFF files!" is *)
(* UnsupportedOperation, "... does not divide evenly ..." InvalidArgument. *)
(***************************************************************************)
\* setInterleavedChannelCount storing the count before it is validated
setInterleavedChannelCount_storeFirst(channelCount) ==
    LET n == IF channelCount < 1 THEN 1 ELSE channelCount
    IN  /\ Idle
        /\ IF d.isOmeTiff
           THEN /\ d' = d
                /\ last' = Call("setInterleavedChannelCount", channelCount, 0, 0, 0,
                                FALSE, "UnsupportedOperation", 0)
           ELSE IF d.rawImageCount > 0 /\ n > 1 /\ d.rawImageCount % n # 0
           THEN /\ d' = [d EXCEPT !.interleavedChannels = n]
                /\ last' = Call("setInterleavedChannelCount", channelCount, 0, 0, 0,
                                FALSE, "InvalidArgument", 0)
           ELSE /\ d' = applyInterleavingInterpretation([d EXCEPT !.interleavedChannels = n])
                /\ last' = Call("setInterleavedChannelCount", channelCount, 0, 0, 0,
                                TRUE, "", 0)
        /\ UNCHANGED <<rd, sv, ms, nv, gui>>

\* setInterleavedChannelCount without the OME-TIFF test
setInterleavedChannelCount_noOmeCheck(channelCount) ==
    LET n == IF channelCount < 1 THEN 1 ELSE channelCount
    IN  /\ Idle
        /\ IF d.rawImageCount > 0 /\ n > 1 /\ d.rawImageCount % n # 0
           THEN /\ d' = d
                /\ last' = Call("setInterleavedChannelCount", channelCount, 0, 0, 0,
                                FALSE, "InvalidArgument", 0)
           ELSE /\ d' = applyInterleavingInterpretation([d EXCEPT !.interleavedChannels = n])
                /\ last' = Call("setInterleavedChannelCount", channelCount, 0, 0, 0,
                                TRUE, "", 0)
        /\ UNCHANGED <<rd, sv, ms, nv, gui>>

setInterleavedChannelCount(channelCount) ==
    LET n == IF channelCount < 1 THEN 1 ELSE channelCount
    IN  /\ Idle
        /\ IF d.isOmeTiff
           THEN /\ d' = d
                /\ last' = Call("setInterleavedChannelCount", channelCount, 0, 0, 0,
                                FALSE, "UnsupportedOperation", 0)
           ELSE IF d.rawImageCount > 0 /\ n > 1 /\ d.rawImageCount % n # 0
           THEN /\ d' = d
                /\ last' = Call("setInterleavedChannelCount", channelCount, 0, 0, 0,
                                FALSE, "InvalidArgument", 0)
           ELSE /\ d' = applyInterleavingInterpretation([d EXCEPT !.interleavedChannels = n])
                /\ last' = Call("setInterleavedChannelCount", channelCount, 0, 0, 0,
                                TRUE, "", 0)
        /\ UNCHANGED <<rd, sv, ms, nv, gui>>

SetInterleavedChannelCount == \E n \in 0..MaxChan : setInterleavedChannelCount(n)

(***************************************************************************)
(* The decoder's getIndex(z, c, t) on file f (ome::files::getIndex): the   *)
(* rasterised position of (z, c, t) in the file's dimension order; -1      *)
(* stands for the std::logic_error it throws on an out-of-range            *)
(* coordinate.                                                             *)
(***************************************************************************)
Throws == -1

readerGetIndex(f, z, c, t) ==
    IF z >= f.z \/ c >= f.c \/ t >= f.t THEN Throws
    ELSE IF f.order = "XYZCT" THEN z + f.z * (c + f.c * t)
    ELSE c + f.c * (z + f.z * t)

\* getPlaneIndex with z and c swapped in the interleaved formula
getPlaneIndex_swapped(z, c, t) ==
    IF d.interleavedChannels > 1 /\ ~d.isOmeTiff
    THEN c * d.interleavedChannels + z
    ELSE readerGetIndex(rd.file, z, c, t)

\* getPlaneIndex with the time coordinate folded into the interleaved formula
getPlaneIndex_withTime(z, c, t) ==
    IF d.interleavedChannels > 1 /\ ~d.isOmeTiff
    THEN (t * d.sizeZ + z) * d.interleavedChannels + c
    ELSE readerGetIndex(rd.file, z, c, t)


\* getPlaneIndex rejecting coordinates outside the effective dimensions
getPlaneIndex_validated(z, c, t) ==
    IF d.interleavedChannels > 1 /\ ~d.isOmeTiff
    THEN IF z >= d.sizeZ \/ c >= d.sizeC THEN Throws ELSE z * d.interleavedChannels + c
    ELSE readerGetIndex(rd.file, z, c, t)

\* Private::getPlaneIndex(z, c, t): the value returned (Throws: the decoder threw)
getPlaneIndex(z, c, t) ==
    IF d.interleavedChannels > 1 /\ ~d.isOmeTiff
    THEN z * d.interleavedChannels + c
    ELSE readerGetIndex(rd.file, z, c, t)

\* Private::getPlaneIndex(z, c, t): the decoder cursor it leaves behind.
\* setSeries(oldSeries) restores the series and leaves the resolution at 0;
\* when reader->getIndex throws, the restore is not reached.
getPlaneIndexCursor(z, c, t) ==
    IF d.interleavedChannels > 1 /\ ~d.isOmeTiff
    THEN rd
    ELSE IF readerGetIndex(rd.file, z, c, t) = Throws
    THEN [rd EXCEPT !.series = d.series, !.resolution = d.resolution]
    ELSE [rd EXCEPT !.series = rd.series, !.resolution = 0]

\* OMETiffImage::getIndex(z, c, t): the value returned
getIndexValue(z, c, t) == IF ~d.reader THEN 0 ELSE getPlaneIndex(z, c, t)

\* OMETiffImage::readPlane(z, c, t): the physical plane it decodes (Throws: none)
readPlane(z, c, t) ==
    IF ~d.reader \/ getIndexValue(z, c, t) >= FileImageCount(rd.file)
    THEN Throws
    ELSE getIndexValue(z, c, t)

\* OMETiffImage::getIndex(z, c, t)
getIndex(z, c, t) ==
    /\ Idle
    /\ IF ~d.reader
       THEN /\ last' = Call("getIndex", 0, z, c, t, TRUE, "", 0)
            /\ rd' = rd
       ELSE /\ last' = IF getPlaneIndex(z, c, t) = Throws
                       THEN Call("getIndex", 0, z, c, t, FALSE, "logic_error", 0)
                       ELSE Call("getIndex", 0, z, c, t, TRUE, "", getPlaneIndex(z, c, t))
            /\ rd' = getPlaneIndexCursor(z, c, t)
    /\ UNCHANGED <<d, sv, ms, nv, gui>>

Coords == 0..MaxCoord

Times == 0..MaxTime

GetIndex == \E z \in Coords, c \in Coords, t \in Times : getIndex(z, c, t)

(***************************************************************************)
(* OMETiffImage::readPlaneByIndex(planeIndex).  openBytes throws on a      *)
(* plane index outside the file (or when throws is set, a decode error);   *)
(* the catch returns an empty image without touching the cursor again.     *)
(* val: the physical plane decoded.                                        *)
(***************************************************************************)
readPlaneByIndex(planeIndex, throws) ==
    /\ Idle
    /\ IF ~d.reader
       THEN /\ last' = Call("readPlaneByIndex", planeIndex, 0, 0, 0, FALSE, "No file open", 0)
            /\ rd' = rd
       ELSE IF throws \/ planeIndex >= FileImageCount(rd.file)
       THEN /\ last' = Call("readPlaneByIndex", planeIndex, 0, 0, 0, FALSE, "DecodeFailure", 0)
            /\ rd' = [rd EXCEPT !.series = d.series, !.resolution = d.resolution]
       ELSE /\ last' = Call("readPlaneByIndex", planeIndex, 0, 0, 0, TRUE, "", planeIndex)
            /\ rd' = [rd EXCEPT !.series = rd.series, !.resolution = 0]
    /\ UNCHANGED <<d, sv, ms, nv, gui>>

ReadPlaneByIndex ==
    \E planeIndex \in 0..MaxPlanes, throws \in BOOLEAN : readPlaneByIndex(planeIndex, throws)

(***************************************************************************)
(* OMETiffImage::reader() hands the shared decoder to the caller, who may  *)
(* move its cursor: reader()->setSeries(series), setResolution(resolution).*)
(***************************************************************************)
readerSetCursor(series, resolution) ==
    /\ Idle
    /\ d.reader
    /\ rd' = [rd EXCEPT !.series = series, !.resolution = resolution]
    /\ last' = Call("reader", 0, 0, 0, 0, TRUE, "", 0)
    /\ UNCHANGED <<d, sv, ms, nv, gui>>

ReaderSetCursor ==
    \E series \in 0..MaxSeries, resolution \in 0..MaxResolution :
        readerSetCursor(series, resolution)

(***************************************************************************)
(* OMETiffImage::saveWithMetadata, one action per step: building the       *)
(* metadata store and opening the writer, reading a plane, writing it,     *)
(* the progress callback, closing the writer.                              *)
(***************************************************************************)
\* a catch that logs the exception and reports success
catchException_swallow(s, step) ==
    [s EXCEPT !.pc = "done", !.result = "ok", !.message = "", !.threw = step]

\* catch (const std::exception &e): the result after a throw at `step`
catchException(s, step) ==
    [s EXCEPT !.pc = "done", !.result = "error",
              !.message = "Failed to save OME-TIFF", !.threw = step]

\* the loop condition of the plane loop in state s
morePlanes(s) ==
    IF s.inter
    THEN s.t < d.sizeT /\ s.c < d.sizeC /\ s.z < d.sizeZ
    ELSE s.plane < FileImageCount(rd.file)

\* the plane loop nested with z outermost and c fastest
nextPlane_cFastest(s) ==
    IF s.inter
    THEN IF s.c + 1 < d.sizeC
         THEN [s EXCEPT !.c = s.c + 1, !.outPlane = s.outPlane + 1]
         ELSE IF s.z + 1 < d.sizeZ
         THEN [s EXCEPT !.c = 0, !.z = s.z + 1, !.outPlane = s.outPlane + 1]
         ELSE [s EXCEPT !.z = 0, !.c = 0, !.t = s.t + 1, !.outPlane = s.outPlane + 1]
    ELSE [s EXCEPT !.plane = s.plane + 1]

\* the loop increments after one iteration of the plane loop
nextPlane(s) ==
    IF s.inter
    THEN IF s.z + 1 < d.sizeZ
         THEN [s EXCEPT !.z = s.z + 1, !.outPlane = s.outPlane + 1]
         ELSE IF s.c + 1 < d.sizeC
         THEN [s EXCEPT !.z = 0, !.c = s.c + 1, !.outPlane = s.outPlane + 1]
         ELSE [s EXCEPT !.z = 0, !.c = 0, !.t = s.t + 1, !.outPlane = s.outPlane + 1]
    ELSE [s EXCEPT !.plane = s.plane + 1]

\* saveWithMetadata(outputPath, metadata) entered with a decoder: the path it
\* was given and the decoder cursor of that moment
SaveEntry(outputPath) ==
    [SaveIdle EXCEPT !.path = outputPath,
                     !.oldSeries = rd.series, !.oldResolution = rd.resolution]

\* saveWithMetadata describing the output by the raw decoder dimensions
saveBegin_rawDims(fail, outputPath) ==
    /\ sv.pc = "idle"
    /\ last' = Call("saveWithMetadata", 0, 0, 0, 0, TRUE, "", 0)
    /\ IF ~d.reader
       THEN /\ sv' = [SaveIdle EXCEPT !.pc = "done", !.result = "error",
                                      !.message = "No image data loaded",
                                      !.path = outputPath]
            /\ rd' = rd
       ELSE IF fail # "none"
       THEN /\ sv' = catchException(SaveEntry(outputPath), fail)
            /\ rd' = rd
       ELSE LET s0 == IF d.isOmeTiff
                      THEN [SaveEntry(outputPath) EXCEPT !.metaZ = rd.file.z, !.metaC = rd.file.c,
                                            !.metaT = rd.file.t,
                                            !.metaOrder = rd.file.order]
                      ELSE [SaveEntry(outputPath) EXCEPT !.metaZ = d.rawSizeZ, !.metaC = d.rawSizeC,
                                            !.metaT = d.rawSizeT, !.metaOrder = "XYZCT"]
                s1 == [s0 EXCEPT !.inter = ~d.isOmeTiff /\ d.interleavedChannels > 1]
            IN  /\ sv' = [s1 EXCEPT !.pc = IF morePlanes(s1) THEN "read" ELSE "close",
                                     !.opened = TRUE]
                /\ rd' = [rd EXCEPT !.series = 0, !.resolution = 0]
    /\ UNCHANGED <<d, ms, nv, gui>>

saveBegin(fail, outputPath) ==
    /\ sv.pc = "idle"
    /\ last' = Call("saveWithMetadata", 0, 0, 0, 0, TRUE, "", 0)
    /\ IF ~d.reader
       THEN /\ sv' = [SaveIdle EXCEPT !.pc = "done", !.result = "error",
                                      !.message = "No image data loaded",
                                      !.path = outputPath]
            /\ rd' = rd
       ELSE IF fail # "none"
       THEN /\ sv' = catchException(SaveEntry(outputPath), fail)
            /\ rd' = rd
       ELSE LET s0 == IF d.isOmeTiff
                      THEN [SaveEntry(outputPath) EXCEPT !.metaZ = rd.file.z, !.metaC = rd.file.c,
                                            !.metaT = rd.file.t,
                                            !.metaOrder = rd.file.order]
                      ELSE [SaveEntry(outputPath) EXCEPT !.metaZ = d.sizeZ, !.metaC = d.sizeC,
                                            !.metaT = d.sizeT, !.metaOrder = "XYZCT"]
                s1 == [s0 EXCEPT !.inter = ~d.isOmeTiff /\ d.interleavedChannels > 1]
            IN  /\ sv' = [s1 EXCEPT !.pc = IF morePlanes(s1) THEN "read" ELSE "close",
                                     !.opened = TRUE]
                /\ rd' = [rd EXCEPT !.series = 0, !.resolution = 0]
    /\ UNCHANGED <<d, ms, nv, gui>>

\* the output paths a caller passes: a path with no file yet, or the path of an
\* existing file other than the one the image was opened from (onSaveFileAs)
OutputPaths == {"new", "existing"}

SaveBegin ==
    \E fail \in {"none", "metadata", "setId"}, outputPath \in OutputPaths :
        saveBegin(fail, outputPath)

\* reader->openBytes(rawPlane, buf) of the current iteration
saveReadPlane(throws) ==
    /\ sv.pc = "read"
    /\ LET src == IF sv.inter THEN getPlaneIndex(sv.z, sv.c, sv.t) ELSE sv.plane
       IN  IF throws \/ src >= FileImageCount(rd.file)
           THEN sv' = catchException(sv, "openBytes")
           ELSE sv' = [sv EXCEPT !.pc = "write", !.buf = src,
                                 !.reads = Append(sv.reads, src)]
    /\ UNCHANGED <<d, rd, last, ms, nv, gui>>

SaveReadPlane == \E throws \in BOOLEAN : saveReadPlane(throws)

\* writer->saveBytes(outPlane, buf) of the current iteration and the loop increments
saveWritePlane(throws) ==
    /\ sv.pc = "write"
    /\ IF throws
       THEN sv' = catchException(sv, "saveBytes")
       ELSE LET out == IF sv.inter THEN sv.outPlane ELSE sv.plane
                s1 == [sv EXCEPT !.writes = Append(sv.writes, <<out, sv.buf>>)]
            IN  sv' = [nextPlane(s1) EXCEPT !.pc = "progress"]
    /\ UNCHANGED <<d, rd, last, ms, nv, gui>>

SaveWritePlane == \E throws \in BOOLEAN : saveWritePlane(throws)

\* a progress callback whose return value is ignored
saveProgress_ignored(goOn) ==
    /\ sv.pc = "progress"
    /\ LET s1 == [sv EXCEPT !.progress = Append(sv.progress, <<Len(sv.writes) - 1, d.imageCount>>),
                            !.cancelled = @ \/ ~goOn]
       IN  sv' = [s1 EXCEPT !.pc = IF morePlanes(s1) THEN "read" ELSE "close"]
    /\ UNCHANGED <<d, rd, last, ms, nv, gui>>

\* progressCallback(current, total) after a plane write; goOn: its return value
saveProgress(goOn) ==
    /\ sv.pc = "progress"
    /\ LET s1 == [sv EXCEPT !.progress = Append(sv.progress, <<Len(sv.writes) - 1, d.imageCount>>)]
       IN  IF ~goOn
           THEN sv' = [s1 EXCEPT !.pc = "done", !.result = "error",
                                 !.message = "Save cancelled", !.cancelled = TRUE]
           ELSE sv' = [s1 EXCEPT !.pc = IF morePlanes(s1) THEN "read" ELSE "close"]
    /\ UNCHANGED <<d, rd, last, ms, nv, gui>>

SaveProgress == \E goOn \in BOOLEAN : saveProgress(goOn)

\* writer->close() and the return of success
saveClose(throws) ==
    /\ sv.pc = "close"
    /\ IF throws
       THEN sv' = catchException(sv, "close")
       ELSE sv' = [sv EXCEPT !.pc = "done", !.result = "ok"]
    /\ UNCHANGED <<d, rd, last, ms, nv, gui>>

SaveClose == \E throws \in BOOLEAN : saveClose(throws)

\* saveWithMetadata has returned: the caller takes the result
SaveReturn ==
    /\ sv.pc = "done"
    /\ sv' = SaveIdle
    /\ last' = Call("saveWithMetadata", 0, 0, 0, 0, sv.result = "ok", sv.message, 0)
    /\ UNCHANGED <<d, rd, ms, nv, gui>>

Next ==
    \/ Open
    \/ Close
    \/ SetInterleavedChannelCount
    \/ GetIndex
    \/ ReadPlaneByIndex
    \/ ReaderSetCursor
    \/ SaveBegin
    \/ SaveReadPlane
    \/ SaveWritePlane
    \/ SaveProgress
    \/ SaveClose
    \/ SaveReturn

Spec == Init /\ [][Next]_vars

(***************************************************************************)
(* Binary floating point (the C++ double), with a mantissa of MantissaBits *)
(* bits in place of 53 and round-to-nearest, ties-to-even.  A positive     *)
(* number is [m, k] standing for m / 2^k with 2^(MantissaBits-1) <= m <    *)
(* 2^MantissaBits; zero is [0, 0].  A factor 2^j of a multiplier or        *)
(* divisor only moves the exponent, as it does in the hardware.            *)
(***************************************************************************)
MantissaBits == 21

RECURSIVE Pow2(_)
Pow2(n) == IF n = 0 THEN 1 ELSE 2 * Pow2(n - 1)

RECURSIVE OddPart(_)
OddPart(c) == IF c % 2 = 0 THEN OddPart(c \div 2) ELSE c

RECURSIVE TwoExp(_)
TwoExp(c) == IF c % 2 = 0 THEN 1 + TwoExp(c \div 2) ELSE 0

\* the least s with v * 2^s >= lim
RECURSIVE ShiftUp(_, _)
ShiftUp(v, lim) == IF v >= lim THEN 0 ELSE 1 + ShiftUp(2 * v, lim)

\* the least s with n < lim * 2^s
RECURSIVE ShiftDown(_, _)
ShiftDown(n, lim) == IF n < lim THEN 0 ELSE 1 + ShiftDown(n \div 2, lim)

\* n / c rounded to the nearest integer, ties to even
RoundHalfEven(n, c) ==
    LET q == n \div c
        r == n % c
    IN  IF 2 * r > c \/ (2 * r = c /\ q % 2 = 1) THEN q + 1 ELSE q

FlZero == [m |-> 0, k |-> 0]

\* mantissa and exponent after rounding: a mantissa rounded up to 2^MantissaBits
\* is renormalised
FlNorm(mant, k) ==
    IF mant = Pow2(MantissaBits)
    THEN [m |-> Pow2(MantissaBits - 1), k |-> k - 1]
    ELSE [m |-> mant, k |-> k]

\* static_cast<double>(v) for an integer 0 <= v < 2^MantissaBits
FlOfInt(v) ==
    IF v = 0 THEN FlZero
    ELSE LET s == ShiftUp(v, Pow2(MantissaBits - 1))
         IN  [m |-> v * Pow2(s), k |-> s]

\* x / c in double arithmetic, c a positive integer
FlDivInt(x, c) ==
    IF x.m = 0 THEN FlZero
    ELSE LET o == OddPart(c)
             s == ShiftUp(x.m, o * Pow2(MantissaBits - 1))
         IN  FlNorm(RoundHalfEven(x.m * Pow2(s), o), x.k + s + TwoExp(c))

\* x * c in double arithmetic, c a non-negative integer
FlMulInt(x, c) ==
    IF x.m = 0 \/ c = 0 THEN FlZero
    ELSE LET n == x.m * OddPart(c)
             s == ShiftDown(n, Pow2(MantissaBits))
         IN  FlNorm(RoundHalfEven(n, Pow2(s)), x.k - s - TwoExp(c))

\* the integer part of x >= 0 (conversion of a double to an integer type)
FlTrunc(x) == IF x.k >= 0 THEN x.m \div Pow2(x.k) ELSE x.m * Pow2(-x.k)

(***************************************************************************)
(* PixelBufferToRawImageVisitor: the conversion of one decoded plane to a  *)
(* RawImage.  A buffer is its pixel type and its elements; the plane is    *)
(* PlaneW x PlaneH, one sample per pixel.  The 8- and 16-bit types keep    *)
(* their width; the 32-bit types are Bits32 bits wide in the model.  The   *)
(* bool, float, double and complex overloads are not part of the model.    *)
(***************************************************************************)
Bits32 == 3

UInt16Max == 65535

PixelTypes == {"uint8", "int8", "uint16", "int16", "uint32", "int32"}

\* the element values the planes of the model are made of
PixelValues(type) ==
    CASE type = "uint8" -> {0, 1, 128, 255}
      [] type = "int8" -> {-128, -1, 0, 127}
      [] type = "uint16" -> {0, 1, 256, 65535}
      [] type = "int16" -> {-32768, -1, 0, 32767}
      [] type = "uint32" -> 0..(Pow2(Bits32) - 1)
      [] type = "int32" -> (-Pow2(Bits32 - 1))..(Pow2(Bits32 - 1) - 1)

PlaneSize == PlaneW * PlaneH

\* the plane whose pixels run through a, b, c, a, ...
Plane(a, b, c) == [i \in 1..PlaneSize |-> <<a, b, c>>[((i - 1) % 3) + 1]]

Buffers ==
    UNION {{[type |-> ty, data |-> Plane(a, b, c)] :
               a \in PixelValues(ty), b \in PixelValues(ty), c \in PixelValues(ty)} :
           ty \in PixelTypes}

\* RawImage after construction
NoImage == [data |-> <<>>, width |-> 0, height |-> 0, channels |-> 1, bytesPerChannel |-> 1]

\* the RawImage of a conversion: width x height pixels of one channel
RawImage(data, bytesPerChan) ==
    [data |-> data, width |-> PlaneW, height |-> PlaneH, channels |-> 1,
     bytesPerChannel |-> bytesPerChan]

\* copyData copying the elements in reverse order
copyData_reversed(src, bytesPerChan) ==
    RawImage([i \in 1..PlaneSize |-> src[PlaneSize + 1 - i]], bytesPerChan)

\* copyData(src, bytesPerChan): memcpy of width * height elements
copyData(src, bytesPerChan) ==
    RawImage([i \in 1..PlaneSize |-> src[i]], bytesPerChan)

SeqMin(src) == CHOOSE x \in {src[i] : i \in 1..Len(src)} : \A i \in 1..Len(src) : x <= src[i]

SeqMax(src) == CHOOSE x \in {src[i] : i \in 1..Len(src)} : \A i \in 1..Len(src) : x >= src[i]

\* normalizeToUint16<T>, T unsigned: maxVal - minVal and src[i] - minVal are
\* computed in T without overflow
normalizeToUint16(src) ==
    LET minVal == SeqMin(src)
        maxVal == SeqMax(src)
        scale == FlDivInt(FlOfInt(UInt16Max), maxVal - minVal)
    IN  IF maxVal > minVal
        THEN RawImage([i \in 1..PlaneSize |-> FlTrunc(FlMulInt(scale, src[i] - minVal))], 2)
        ELSE RawImage([i \in 1..PlaneSize |-> 0], 2)

\* what the builds make of undefined behaviour: the two's complement result,
\* or the result of the computation in a wider type
UBOutcomes == {"wrap", "exact"}

\* maxVal - minVal computed in int32: a difference above the largest int32 is
\* a signed overflow
Int32Difference(maxVal, minVal, ub) ==
    IF maxVal - minVal > Pow2(Bits32 - 1) - 1 /\ ub = "wrap"
    THEN maxVal - minVal - Pow2(Bits32)
    ELSE maxVal - minVal

\* static_cast<uint16_t>(x) of the double x = -mag or +mag, mag > 0 given by
\* its integer part t: a value outside [0, 65535] is undefined behaviour
ToUint16(negative, t, ub) ==
    IF ~negative /\ t <= UInt16Max THEN t
    ELSE IF negative /\ t = 0 THEN 0
    ELSE IF ub = "exact" THEN 0
    ELSE IF negative THEN (UInt16Max + 1 - (t % (UInt16Max + 1))) % (UInt16Max + 1)
    ELSE t % (UInt16Max + 1)

\* normalizeSignedToUint16<T>, T = int32_t
normalizeSignedToUint16(src, ub) ==
    LET minVal == SeqMin(src)
        maxVal == SeqMax(src)
        diff == Int32Difference(maxVal, minVal, ub)
        absDiff == IF diff < 0 THEN -diff ELSE diff
        scale == FlDivInt(FlOfInt(UInt16Max), absDiff)
    IN  IF maxVal > minVal
        THEN RawImage([i \in 1..PlaneSize |->
                          ToUint16(diff < 0, FlTrunc(FlMulInt(scale, src[i] - minVal)), ub)], 2)
        ELSE RawImage([i \in 1..PlaneSize |-> 0], 2)

\* operator()(int16_t buffer) adding 32767
visitInt16_offByOne(src) == RawImage([i \in 1..PlaneSize |-> src[i] + 32767], 2)

\* operator()(int16_t buffer): every element shifted by 32768
visitInt16(src) == RawImage([i \in 1..PlaneSize |-> src[i] + 32768], 2)

\* operator()(int8_t buffer): every element shifted by 128
visitInt8(src) == RawImage([i \in 1..PlaneSize |-> src[i] + 128], 1)

\* std::visit(visitor, buf.vbuffer()): the overload of the buffer's pixel type
visit(buf, ub) ==
    CASE buf.type = "uint8" -> copyData(buf.data, 1)
      [] buf.type = "int8" -> visitInt8(buf.data)
      [] buf.type = "uint16" -> copyData(buf.data, 2)
      [] buf.type = "int16" -> visitInt16(buf.data)
      [] buf.type = "uint32" -> normalizeToUint16(buf.data)
      [] buf.type = "int32" -> normalizeSignedToUint16(buf.data, ub)

\* readPlaneByIndex hands the decoded buffer to the visitor
NormVisit ==
    /\ nv.phase = "buffer"
    /\ \E ub \in UBOutcomes :
          nv' = [nv EXCEPT !.phase = "image", !.img = visit(nv.buf, ub), !.ub = ub]
    /\ UNCHANGED <<d, rd, last, sv, ms, gui>>

NormInit ==
    /\ d = PrivateInit
    /\ rd = NoReader
    /\ last = Call("none", 0, 0, 0, 0, TRUE, "", 0)
    /\ sv = SaveIdle
    /\ ms = MetaIdle
    /\ \E buf \in Buffers : nv = [phase |-> "buffer", buf |-> buf, img |-> NoImage, ub |-> "none"]
    /\ mw = MainWindowInit
    /\ wk = NoWorker
    /\ disk = NoDisk

NormNext == NormVisit

NormSpec == NormInit /\ [][NormNext]_vars

(***************************************************************************)
(* The metadata store of a file (MetadataRetrieve) and the ImageMetadata   *)
(* extracted from it.  Lengths are doubles with their unit; numerical      *)
(* aperture and refractive index are carried in thousandths; an absent     *)
(* string is "", an absent number -1, an absent length NoQuantity.  A      *)
(* lookup of an absent field throws, as does the lookup named by `fail`.   *)
(***************************************************************************)
NoQuantity == [value |-> FlZero, unit |-> "none"]

Quantity(value, unit) == [value |-> value, unit |-> unit]

Absent == -1

\* ChannelParams after construction
DefaultChannel ==
    [name |-> "", acquisitionMode |-> "LaserScanningConfocalMicroscopy",
     exWavelengthNm |-> FlZero, emWavelengthNm |-> FlZero, pinholeSizeNm |-> FlZero,
     photonCount |-> 1]

\* ImageMetadata after construction
DefaultMetadata ==
    [imageName |-> "", sizeX |-> 0, sizeY |-> 0, sizeZ |-> 0, sizeC |-> 0, sizeT |-> 0,
     pixelType |-> "", dataSizeBytes |-> 0,
     physSizeXNm |-> FlZero, physSizeYNm |-> FlZero, physSizeZNm |-> FlZero,
     numericalAperture |-> 0, lensImmersion |-> "Water", embeddingMedium |-> "Water",
     immersionRI |-> 1000, channels |-> <<>>]

\* the placeholder store (DummyMetadata) the decoder of a raw TIFF carries
DummyStore ==
    [real |-> FALSE, imageName |-> "", sizeX |-> 0, sizeY |-> 0, sizeZ |-> 0, sizeC |-> 0,
     sizeT |-> 0, pixelType |-> "",
     physX |-> NoQuantity, physY |-> NoQuantity, physZ |-> NoQuantity,
     objectiveSettingsID |-> "", refractiveIndex |-> Absent, medium |-> "",
     instruments |-> <<>>, channels |-> <<>>]

\* a channel of a store with no attribute set
EmptyChannel ==
    [name |-> "", acquisitionMode |-> "", excitation |-> NoQuantity,
     emission |-> NoQuantity, pinhole |-> NoQuantity]

\* the pixel type of the files of the model and its size in bytes
FilePixelType == "uint16"

BytesPerPixel(pt) ==
    IF pt \in {"uint16", "int16"} THEN 2
    ELSE IF pt \in {"uint32", "int32", "float"} THEN 4
    ELSE IF pt = "double" THEN 8
    ELSE 1

\* QFileInfo::size of file f: its pixel data
FileSize(f) == PlaneW * PlaneH * BytesPerPixel(FilePixelType) * FileImageCount(f)

\* the lookups of extractMetadata that can throw; the second component is the
\* channel index of a per-channel lookup
ImageLookups ==
    {"imageName", "sizeX", "sizeY", "sizeZ", "sizeC", "sizeT", "pixelType",
     "physX", "physY", "physZ", "objectiveSettingsID", "numericalAperture",
     "lensImmersion", "refractiveIndex", "medium", "channelCount"}

ChannelLookups == {"name", "acquisitionMode", "excitation", "emission", "pinhole"}

NoFail == <<"none", 0>>

Lookups ==
    {<<n, 0>> : n \in ImageLookups} \cup (ChannelLookups \X (0..(MaxPlanes - 1)))

\* floatQuantityToNm leaving micrometres unconverted
floatQuantityToNm_noFactor(q) == q.value

\* floatQuantityToNm(q) for the units of the model (micrometre, nanometre)
floatQuantityToNm(q) ==
    IF q.unit = "um" THEN FlMulInt(q.value, 1000) ELSE q.value

\* "Channel %1" with a number
ChannelName(n) == "Channel " \o ToString(n)

\* the first objective of instrument `objectives` whose ID is id (0: none)
FirstMatch(objectives, id) ==
    LET hits == {j \in 1..Len(objectives) : objectives[j].id = id}
    IN  IF hits = {} THEN 0 ELSE CHOOSE j \in hits : \A h \in hits : j <= h

\* the instrument loop of extractMetadata from instrument i on: acc holds
\* numericalAperture and lensImmersion so far.  The break leaves the
\* objective loop only, the instrument loop goes on.
RECURSIVE ScanInstruments(_, _, _, _, _)
ScanInstruments(instruments, id, fail, i, acc) ==
    IF i > Len(instruments) THEN acc
    ELSE LET j == FirstMatch(instruments[i], id)
             obj == instruments[i][j]
             acc1 == IF j = 0 THEN acc
                     ELSE [na |-> IF fail[1] = "numericalAperture" \/ obj.na = Absent
                                  THEN acc.na ELSE obj.na,
                           immersion |-> IF fail[1] = "lensImmersion" \/ obj.immersion = ""
                                         THEN acc.immersion ELSE obj.immersion]
         IN  ScanInstruments(instruments, id, fail, i + 1, acc1)

\* the ChannelParams extracted for channel ch (0-based) of store st
extractChannel(st, ch, fail) ==
    LET c == st.channels[ch + 1]
        fails(n) == fail = <<n, ch>>
        mode == IF fails("acquisitionMode") \/ c.acquisitionMode = ""
                THEN "LaserScanningConfocalMicroscopy" ELSE c.acquisitionMode
    IN  [name |-> IF fails("name") \/ c.name = "" THEN ChannelName(ch) ELSE c.name,
         acquisitionMode |-> mode,
         photonCount |-> IF mode = "MultiPhotonMicroscopy" THEN 2 ELSE 1,
         exWavelengthNm |-> IF fails("excitation") \/ c.excitation = NoQuantity
                            THEN FlZero ELSE floatQuantityToNm(c.excitation),
         emWavelengthNm |-> IF fails("emission") \/ c.emission = NoQuantity
                            THEN FlZero ELSE floatQuantityToNm(c.emission),
         pinholeSizeNm |-> IF fails("pinhole") \/ c.pinhole = NoQuantity
                           THEN FlZero ELSE floatQuantityToNm(c.pinhole)]

\* the dimension lookups in program order: they share one try block
DimLookups == <<"sizeX", "sizeY", "sizeZ", "sizeC", "sizeT">>

\* the dimensions extractMetadata reads: a throw skips the lookups after it
extractDimensions(st, fail) ==
    LET k == IF \E i \in 1..Len(DimLookups) : DimLookups[i] = fail[1]
             THEN CHOOSE i \in 1..Len(DimLookups) : DimLookups[i] = fail[1]
             ELSE Len(DimLookups) + 1
    IN  [g \in {DimLookups[i] : i \in 1..Len(DimLookups)} |->
            IF \E i \in 1..(k - 1) : DimLookups[i] = g THEN st[g] ELSE 0]

\* OMETiffImage::extractMetadata(0) on handle p with store st and file f open;
\* fail: the lookup that throws
extractMetadata(p, st, f, fail) ==
    IF ~p.reader THEN DefaultMetadata
    ELSE IF ~st.real
    THEN [DefaultMetadata EXCEPT
             !.sizeX = p.sizeX, !.sizeY = p.sizeY, !.sizeZ = p.sizeZ,
             !.sizeC = p.sizeC, !.sizeT = p.sizeT,
             !.pixelType = FilePixelType,
             !.imageName = p.currentFilename,
             !.dataSizeBytes = FileSize(f),
             !.channels = [c \in 1..p.sizeC |-> [DefaultChannel EXCEPT !.name = ChannelName(c)]]]
    ELSE LET fails(n) == fail[1] = n
             dims == extractDimensions(st, fail)
             optics == IF fails("objectiveSettingsID") \/ st.objectiveSettingsID = ""
                       THEN [na |-> 0, immersion |-> "Water"]
                       ELSE ScanInstruments(st.instruments, st.objectiveSettingsID, fail, 1,
                                            [na |-> 0, immersion |-> "Water"])
             hasType == ~fails("pixelType") /\ st.pixelType # ""
         IN  [imageName |-> IF fails("imageName") \/ st.imageName = ""
                            THEN p.currentFilename ELSE st.imageName,
              sizeX |-> dims.sizeX, sizeY |-> dims.sizeY, sizeZ |-> dims.sizeZ,
              sizeC |-> dims.sizeC, sizeT |-> dims.sizeT,
              pixelType |-> IF hasType THEN st.pixelType ELSE "",
              dataSizeBytes |-> IF hasType
                                THEN dims.sizeX * dims.sizeY * dims.sizeZ * dims.sizeC
                                     * dims.sizeT * BytesPerPixel(st.pixelType)
                                ELSE 0,
              physSizeXNm |-> IF fails("physX") \/ st.physX = NoQuantity
                              THEN FlZero ELSE floatQuantityToNm(st.physX),
              physSizeYNm |-> IF fails("physY") \/ st.physY = NoQuantity
                              THEN FlZero ELSE floatQuantityToNm(st.physY),
              physSizeZNm |-> IF fails("physZ") \/ st.physZ = NoQuantity
                              THEN FlZero ELSE floatQuantityToNm(st.physZ),
              numericalAperture |-> optics.na,
              lensImmersion |-> optics.immersion,
              immersionRI |-> IF fails("refractiveIndex") \/ st.refractiveIndex = Absent
                              THEN 1000 ELSE st.refractiveIndex,
              embeddingMedium |-> IF fails("medium") \/ st.medium = ""
                                  THEN "Water" ELSE st.medium,
              channels |-> IF fails("channelCount") THEN <<>>
                           ELSE [c \in 1..Len(st.channels) |-> extractChannel(st, c - 1, fail)]]

(***************************************************************************)
(* saveWithMetadata(outputPath, metadata): the metadata store it writes.   *)
(***************************************************************************)
\* a physical size in nm as it is written: micrometres, and only if > 0
writePhysicalSize(old, nm) ==
    IF nm.m > 0 THEN Quantity(FlDivInt(nm, 1000), "um") ELSE old

\* a channel length in nm as it is written: nanometres, and only if > 0
writeChannelLength(old, nm) ==
    IF nm.m > 0 THEN Quantity(nm, "nm") ELSE old

\* the instrument/objective update: in every instrument the first objective
\* with the image's objective-settings ID
writeObjectives(instruments, id, metadata) ==
    [i \in 1..Len(instruments) |->
        [j \in 1..Len(instruments[i]) |->
            IF j = FirstMatch(instruments[i], id)
            THEN [instruments[i][j] EXCEPT
                     !.na = IF metadata.numericalAperture > 0
                            THEN metadata.numericalAperture ELSE @,
                     !.immersion = metadata.lensImmersion]
            ELSE instruments[i][j]]]

\* the store fillMetadata builds from the effective dimensions of handle p
synthesizedStore(p, metadata) ==
    [DummyStore EXCEPT
        !.real = TRUE, !.imageName = metadata.imageName,
        !.sizeX = p.sizeX, !.sizeY = p.sizeY, !.sizeZ = p.sizeZ,
        !.sizeC = p.sizeC, !.sizeT = p.sizeT,
        !.pixelType = FilePixelType,
        !.channels = [c \in 1..p.sizeC |-> EmptyChannel]]

\* modifiedMeta as saveWithMetadata hands it to the writer
modifiedMeta(p, st, metadata) ==
    LET copied == st.real /\ p.isOmeTiff
        m0 == IF copied THEN st ELSE synthesizedStore(p, metadata)
        m1 == [m0 EXCEPT
                  !.physX = writePhysicalSize(@, metadata.physSizeXNm),
                  !.physY = writePhysicalSize(@, metadata.physSizeYNm),
                  !.physZ = writePhysicalSize(@, metadata.physSizeZNm)]
        m2 == IF copied /\ m1.objectiveSettingsID # ""
              THEN [m1 EXCEPT
                       !.refractiveIndex = IF metadata.immersionRI > 0
                                           THEN metadata.immersionRI ELSE @,
                       !.medium = metadata.embeddingMedium,
                       !.instruments = writeObjectives(@, m1.objectiveSettingsID, metadata)]
              ELSE m1
    IN  [m2 EXCEPT
            !.channels = [c \in 1..Len(m2.channels) |->
                IF c > Len(metadata.channels) THEN m2.channels[c]
                ELSE [m2.channels[c] EXCEPT
                         !.name = metadata.channels[c].name,
                         !.acquisitionMode = metadata.channels[c].acquisitionMode,
                         !.excitation = writeChannelLength(@, metadata.channels[c].exWavelengthNm),
                         !.emission = writeChannelLength(@, metadata.channels[c].emWavelengthNm),
                         !.pinhole = writeChannelLength(@, metadata.channels[c].pinholeSizeNm)]]]

(***************************************************************************)
(* Extracting, editing, saving and reopening: the metadata of one image    *)
(* from the moment it is opened.                                           *)
(***************************************************************************)
\* the files the metadata runs start from
MetaFiles == {f \in Files : f.t = 1 /\ f.order = "XYZCT"}

\* the objectives of the stores of the model
Objective(id, na, immersion) == [id |-> id, na |-> na, immersion |-> immersion]

InstrumentLists ==
    {<<>>,
     << <<Objective("Objective:0", 1400, "Oil"), Objective("Objective:1", 800, "Air")>> >>,
     << <<Objective("Objective:1", 800, "Air"), Objective("Objective:0", 1400, "Oil")>>,
        <<Objective("Objective:0", 1200, "Glycerol")>> >>}

\* the physical sizes the stores of the model hold, and the sizes the user enters (nm)
StoredSizes == {NoQuantity, Quantity(FlOfInt(325), "nm")}

EditSizesNm == {0, 1, 650, 1001}

\* the metadata stores the decoder of file f can carry
StoresOf(f) ==
    IF ~f.ome THEN {DummyStore}
    ELSE {[real |-> TRUE, imageName |-> "img", sizeX |-> PlaneW, sizeY |-> PlaneH,
           sizeZ |-> f.z, sizeC |-> f.c, sizeT |-> f.t, pixelType |-> FilePixelType,
           physX |-> q, physY |-> q, physZ |-> NoQuantity,
           objectiveSettingsID |-> "Objective:0", refractiveIndex |-> 1515, medium |-> "Oil",
           instruments |-> ins,
           channels |-> [c \in 1..f.c |->
                           [name |-> "dye", acquisitionMode |-> "MultiPhotonMicroscopy",
                            excitation |-> Quantity(FlOfInt(488), "nm"),
                            emission |-> NoQuantity,
                            pinhole |-> Quantity(FlOfInt(1), "um")]]] :
          q \in StoredSizes, ins \in InstrumentLists}

\* the file a successful save has written
SavedFile == [ome |-> TRUE, z |-> ms.out.sizeZ, c |-> ms.out.sizeC, t |-> ms.out.sizeT,
              order |-> IF ms.store.real /\ d.isOmeTiff THEN rd.file.order ELSE "XYZCT"]

MetaInit ==
    /\ \E f \in MetaFiles :
          /\ d = [openHandle(PrivateInit, f, 0) EXCEPT !.reader = TRUE]
          /\ rd = [file |-> f, series |-> 0, resolution |-> 0]
          /\ \E st \in StoresOf(f) :
                ms = [phase |-> "opened", store |-> st, meta |-> DefaultMetadata,
                      fail |-> NoFail, v |-> 0, out |-> DummyStore, src |-> DummyStore]
    /\ last = Call("open", 0, 0, 0, 0, TRUE, "", 0)
    /\ sv = SaveIdle
    /\ nv = NormIdle
    /\ mw = MainWindowInit
    /\ wk = NoWorker
    /\ disk = NoDisk

\* extractMetadata() on the open image
MetaExtract ==
    /\ ms.phase \in {"opened", "reopened"}
    /\ \E fail \in Lookups \cup {NoFail} :
          /\ fail # NoFail => (ms.store.real /\ fail[2] < Len(ms.store.channels)
                               /\ ms.phase = "opened")
          /\ ms' = [ms EXCEPT !.phase = IF ms.phase = "opened" THEN "extracted" ELSE "reextracted",
                              !.fail = fail,
                              !.meta = extractMetadata(d, ms.store, rd.file, fail)]
    /\ UNCHANGED <<d, rd, last, sv, nv, gui>>

\* the user enters the physical size X (nm) and saves: saveWithMetadata
\* succeeds and has written the store modifiedMeta
MetaSave ==
    /\ ms.phase = "extracted"
    /\ \E v \in EditSizesNm :
          ms' = [ms EXCEPT !.phase = "saved", !.v = v,
                           !.out = modifiedMeta(d, ms.store,
                                                [ms.meta EXCEPT !.physSizeXNm = FlOfInt(v)])]
    /\ UNCHANGED <<d, rd, last, sv, nv, gui>>

\* the saved file is opened
MetaReopen ==
    /\ ms.phase = "saved"
    /\ d' = [openHandle(d, SavedFile, 0) EXCEPT !.reader = TRUE]
    /\ rd' = [file |-> SavedFile, series |-> 0, resolution |-> 0]
    /\ ms' = [ms EXCEPT !.phase = "reopened", !.store = ms.out, !.src = ms.store]
    /\ UNCHANGED <<last, sv, nv, gui>>

MetaNext ==
    \/ (ms.phase = "opened" /\ SetInterleavedChannelCount)
    \/ MetaExtract
    \/ MetaSave
    \/ MetaReopen

MetaSpec == MetaInit /\ [][MetaNext]_vars


(***************************************************************************)
(* MicroscopeParamsWidget (ui->imageMetaWidget): the ImageMetadata it was  *)
(* given and the edit fields the user changes.  The ranges and decimals of *)
(* the spin boxes are set in the .ui form; a spin box is taken to hold the *)
(* value it was given.  The per-channel edit fields and the list of saved  *)
(* parameter files (SavedParamsManager) are not part of the model.         *)
(***************************************************************************)
\* MicroscopeParamsWidget::setMetadata(metadata)
setMetadata(metadata) ==
    [m_metadata |-> metadata,
     spinXnm |-> metadata.physSizeXNm, spinYnm |-> metadata.physSizeYNm,
     spinZnm |-> metadata.physSizeZNm, spinNA |-> metadata.numericalAperture,
     comboLensImmersion |-> metadata.lensImmersion, spinLensRI |-> metadata.immersionRI,
     comboEmbedding |-> metadata.embeddingMedium, m_modified |-> FALSE]

\* MicroscopeParamsWidget::getMetadata()
getMetadata(w) ==
    [w.m_metadata EXCEPT
        !.physSizeXNm = w.spinXnm, !.physSizeYNm = w.spinYnm, !.physSizeZNm = w.spinZnm,
        !.numericalAperture = w.spinNA, !.lensImmersion = w.comboLensImmersion,
        !.immersionRI = w.spinLensRI, !.embeddingMedium = w.comboEmbedding]

\* the metadata openFile and onInterleavedChannelsChanged hand to the widget:
\* extractMetadata(0), the image name replaced by the file name when empty
shownMetadata(p, st, f, fail) ==
    LET metadata == extractMetadata(p, st, f, fail)
    IN  IF metadata.imageName = "" THEN [metadata EXCEPT !.imageName = FileName(f)]
        ELSE metadata

(***************************************************************************)
(* Parameter files (MetadataJson).  A file is: whether it exists, whether  *)
(* it parses to a JSON object, whether the object has the key              *)
(* "physSizeXNm" and "numericalAperture", and the length of its "channels" *)
(* array.                                                                  *)
(***************************************************************************)
MaxJsonChannels == 2

JsonFiles ==
    [exists : BOOLEAN, valid : BOOLEAN, hasSizes : BOOLEAN, channels : 0..MaxJsonChannels]

\* the values a parameter file of the model carries
JsonSizeNm == FlOfInt(100)

JsonNA == 950

JsonChannel ==
    [DefaultChannel EXCEPT !.name = "saved", !.exWavelengthNm = FlOfInt(561)]

\* MetadataJson::fromJson: the keys present override a default ImageMetadata
fromJson(json) ==
    [DefaultMetadata EXCEPT
        !.physSizeXNm = IF json.hasSizes THEN JsonSizeNm ELSE @,
        !.numericalAperture = IF json.hasSizes THEN JsonNA ELSE @,
        !.channels = [c \in 1..json.channels |-> JsonChannel]]

\* the loaded metadata with the image-derived fields left as parsed
preserveImageFields_none(loadedMeta, currentMeta) == loadedMeta

\* loadParametersFromFile: "Preserve the current image dimensions and name"
preserveImageFields(loadedMeta, currentMeta) ==
    [loadedMeta EXCEPT
        !.sizeX = currentMeta.sizeX, !.sizeY = currentMeta.sizeY,
        !.sizeZ = currentMeta.sizeZ, !.sizeC = currentMeta.sizeC,
        !.sizeT = currentMeta.sizeT, !.pixelType = currentMeta.pixelType,
        !.dataSizeBytes = currentMeta.dataSizeBytes, !.imageName = currentMeta.imageName]

\* loadParametersFromFile: "Adjust channels to match current image"
adjustChannels(loadedMeta, currentMeta) ==
    [loadedMeta EXCEPT
        !.channels = [c \in 1..Len(currentMeta.channels) |->
                         IF c <= Len(loadedMeta.channels) THEN loadedMeta.channels[c]
                         ELSE currentMeta.channels[c]]]

\* MainWindow::loadParametersFromFile(filePath) on widget w: the widget after it
loadParametersFromFile(w, json) ==
    IF ~json.exists \/ ~json.valid THEN w
    ELSE setMetadata(adjustChannels(preserveImageFields(fromJson(json), getMetadata(w)),
                                    getMetadata(w)))

\* an image has been opened and its metadata is shown in the widget
ParamInit ==
    /\ \E f \in MetaFiles :
          /\ d = [openHandle(PrivateInit, f, 0) EXCEPT !.reader = TRUE]
          /\ rd = [file |-> f, series |-> 0, resolution |-> 0]
          /\ \E st \in StoresOf(f), fail \in {NoFail, <<"channelCount", 0>>} :
                ms = [phase |-> "widget", widget |-> setMetadata(shownMetadata(d, st, f, fail))]
    /\ last = Call("open", 0, 0, 0, 0, TRUE, "", 0)
    /\ sv = SaveIdle
    /\ nv = NormIdle
    /\ mw = MainWindowInit
    /\ wk = NoWorker
    /\ disk = NoDisk

\* the physical sizes (nm) the user enters in the widget
UserSizesNm == {FlOfInt(250), FlOfInt(650)}

\* the user edits the X sampling field: onMetadataFieldChanged
ParamEdit ==
    /\ \E v \in UserSizesNm :
          ms' = [ms EXCEPT !.widget.spinXnm = v, !.widget.m_modified = TRUE]
    /\ last' = Call("onMetadataFieldChanged", 0, 0, 0, 0, TRUE, "", 0)
    /\ UNCHANGED <<d, rd, sv, nv, gui>>

\* onLoadParamsClicked / onQuickLoadParamsClicked: loadParametersFromFile
ParamLoad ==
    /\ \E json \in JsonFiles :
          /\ ms' = [ms EXCEPT !.widget = loadParametersFromFile(@, json)]
          /\ last' = Call("loadParametersFromFile", json.channels, 0, 0, 0,
                          json.exists /\ json.valid, "", 0)
    /\ UNCHANGED <<d, rd, sv, nv, gui>>

ParamNext == ParamEdit \/ ParamLoad

ParamSpec == ParamInit /\ [][ParamNext]_vars


(***************************************************************************)
(* MainWindow: the navigation sliders and spin boxes, the position         *)
(* members m_currentZ/C/T and the interleave spin box.  A slider and its   *)
(* spin box are connected both ways (valueChanged -> setValue), and the    *)
(* slider's valueChanged is connected to onSliderZ/C/TChanged.  The shown  *)
(* image, window title and status bar are not part of the model.           *)
(***************************************************************************)
Max0(n) == IF n > 0 THEN n ELSE 0

Min(a, b) == IF a < b THEN a ELSE b

\* OMETiffImage::open(filename) returning true: the handle after it
opened(p, f) == [openHandle(p, f, 0) EXCEPT !.reader = TRUE]

\* OMETiffImage::setInterleavedChannelCount(channelCount) on handle p: whether
\* it succeeds, and the handle after it
setInterleavedResult(p, channelCount) ==
    LET n == IF channelCount < 1 THEN 1 ELSE channelCount
    IN  IF p.isOmeTiff \/ (p.rawImageCount > 0 /\ n > 1 /\ p.rawImageCount % n # 0)
        THEN [ok |-> FALSE, d |-> p]
        ELSE [ok |-> TRUE,
              d |-> applyInterleavingInterpretation([p EXCEPT !.interleavedChannels = n])]

\* the slider maxima updateSliderRanges sets for handle p
sliderRanges(p) ==
    [a \in Axes |-> CASE a = "Z" -> Max0(p.sizeZ - 1)
                      [] a = "T" -> Max0(p.sizeT - 1)
                      [] a = "C" -> Max0(p.sizeC - 1)]

\* MainWindow::updateSliderRanges: setRange bounds the slider's value by the
\* new maximum and, when that changes the value, emits valueChanged, which
\* sets the spin box and runs onSliderZ/C/TChanged (m_current = value)
updateSliderRanges(w, p) ==
    IF ~p.reader THEN w
    ELSE [w EXCEPT !.sliderMax = sliderRanges(p),
                   !.slider = [a \in Axes |-> Min(w.slider[a], sliderRanges(p)[a])],
                   !.spinBox = [a \in Axes |-> Min(w.slider[a], sliderRanges(p)[a])],
                   !.m_current = [a \in Axes |->
                                     IF w.slider[a] > sliderRanges(p)[a]
                                     THEN sliderRanges(p)[a] ELSE w.m_current[a]]]

\* MainWindow::resetSliderValues: signals blocked, sliders and spin boxes to 0
resetSliderValues(w) ==
    [w EXCEPT !.slider = [a \in Axes |-> 0], !.spinBox = [a \in Axes |-> 0]]

\* MainWindow::openFile after open() returned true, for the window
openFileWindow(w, p) ==
    LET w1 == updateSliderRanges(w, p)
        w2 == [w1 EXCEPT !.m_current = [a \in Axes |-> 0]]
    IN  [resetSliderValues(w2) EXCEPT !.navigationEnabled = TRUE,
                                      !.groupTiffInterpretation = ~p.isOmeTiff]

\* the metadata store of the files of the window runs
FileStore(f) ==
    IF ~f.ome THEN DummyStore
    ELSE CHOOSE st \in StoresOf(f) : st.physX = NoQuantity /\ st.instruments = <<>>

\* the parameter widget after openFile: the metadata of the image and the store it came from
openFileWidget(p, st, f) ==
    [phase |-> "widget", widget |-> setMetadata(shownMetadata(p, st, f, NoFail)),
     store |-> st, out |-> DummyStore]

\* MainWindow::openFile(filename); ok: whether OMETiffImage::open succeeds
openFile(f, st, ok) ==
    IF ~ok
    THEN /\ d' = closed(d)
         /\ rd' = NoReader
         /\ UNCHANGED <<mw, ms>>
    ELSE /\ d' = opened(d, f)
         /\ rd' = [file |-> f, series |-> 0, resolution |-> 0]
         /\ mw' = openFileWindow(mw, d')
         /\ ms' = openFileWidget(d', st, f)

\* the window has been constructed: no image, the parameter widget cleared
UiInit ==
    /\ d = PrivateInit
    /\ rd = NoReader
    /\ last = Call("none", 0, 0, 0, 0, TRUE, "", 0)
    /\ sv = SaveIdle
    /\ ms = [phase |-> "widget", widget |-> setMetadata(DefaultMetadata),
             store |-> DummyStore, out |-> DummyStore]
    /\ nv = NormIdle
    /\ mw = MainWindowInit
    /\ wk = NoWorker
    /\ disk = NoDisk

\* the files the user opens in the window runs (the dimension order plays no
\* part in the window)
UiFiles == {f \in Files : f.order = "XYZCT"}

\* onOpenFile: the user picks a file, which opens or fails to open
UiOpenFile ==
    /\ \/ \E f \in UiFiles :
             /\ openFile(f, FileStore(f), TRUE)
             /\ last' = Call("openFile", 0, 0, 0, 0, TRUE, "", 0)
       \/ /\ openFile(NoFile, DummyStore, FALSE)
          /\ last' = Call("openFile", 0, 0, 0, 0, FALSE, "", 0)
    /\ UNCHANGED <<sv, nv, wk, disk>>

\* the slot onSliderZ/C/TChanged(value)
onSliderChanged(w, a, value) == [w EXCEPT !.m_current[a] = value]

\* the user moves slider a to value: the spin box follows, the slot runs
UiSliderChanged ==
    /\ mw.navigationEnabled
    /\ \E a \in Axes, value \in 0..MaxCoord :
          /\ value <= mw.sliderMax[a] /\ value # mw.slider[a]
          /\ mw' = onSliderChanged([mw EXCEPT !.slider[a] = value, !.spinBox[a] = value],
                                   a, value)
          /\ last' = Call("onSliderChanged", value, 0, 0, 0, TRUE, a, 0)
    /\ UNCHANGED <<d, rd, sv, ms, nv, wk, disk>>

\* the user enters value in spin box a: the slider follows, the slot runs
UiSpinBoxChanged ==
    /\ mw.navigationEnabled
    /\ \E a \in Axes, value \in 0..MaxCoord :
          /\ value <= mw.sliderMax[a] /\ value # mw.spinBox[a]
          /\ mw' = onSliderChanged([mw EXCEPT !.spinBox[a] = value, !.slider[a] = value],
                                   a, value)
          /\ last' = Call("onSpinBoxChanged", value, 0, 0, 0, TRUE, a, 0)
    /\ UNCHANGED <<d, rd, sv, ms, nv, wk, disk>>

\* MainWindow::onInterleavedChannelsChanged(count), the spin box showing count
onInterleavedChannelsChanged(count) ==
    LET r == setInterleavedResult(d, count)
        w0 == [mw EXCEPT !.spinCInterleaveCount = count]
    IN  IF ~d.reader \/ d.isOmeTiff
        THEN /\ mw' = w0
             /\ last' = Call("onInterleavedChannelsChanged", count, 0, 0, 0, TRUE, "", 0)
             /\ UNCHANGED <<d, ms>>
        ELSE IF ~r.ok
        THEN /\ mw' = [w0 EXCEPT !.spinCInterleaveCount = d.interleavedChannels]
             /\ last' = Call("onInterleavedChannelsChanged", count, 0, 0, 0, FALSE, "", 0)
             /\ UNCHANGED <<d, ms>>
        ELSE /\ d' = r.d
             /\ mw' = resetSliderValues(
                         updateSliderRanges([w0 EXCEPT !.m_current = [a \in Axes |-> 0]], r.d))
             /\ ms' = [ms EXCEPT !.widget = setMetadata(shownMetadata(r.d, ms.store, rd.file, NoFail))]
             /\ last' = Call("onInterleavedChannelsChanged", count, 0, 0, 0, TRUE, "", 0)

\* the user changes the interleave spin box (enabled with its group box)
UiInterleavedChannelsChanged ==
    /\ mw.groupTiffInterpretation
    /\ \E count \in 1..MaxChan :
          /\ count # mw.spinCInterleaveCount
          /\ onInterleavedChannelsChanged(count)
    /\ UNCHANGED <<rd, sv, nv, wk, disk>>

\* onSaveFile / quickSaveFile as the window sees it: the save fails or is
\* cancelled (nothing changes), or the image is closed and the saved file is
\* opened (reopened: whether that open succeeds)
UiSaveFile ==
    /\ d.reader
    /\ \E saved \in BOOLEAN, reopened \in BOOLEAN :
          /\ IF ~saved THEN UNCHANGED <<d, rd, mw, ms>>
             ELSE LET st == modifiedMeta(d, ms.store, getMetadata(ms.widget))
                      f == [ome |-> TRUE, z |-> st.sizeZ, c |-> st.sizeC, t |-> st.sizeT,
                            order |-> IF ms.store.real /\ d.isOmeTiff
                                      THEN rd.file.order ELSE "XYZCT"]
                  IN  openFile(f, st, reopened)
          /\ last' = Call("saveCurrentFile", 0, 0, 0, 0, saved, "", 0)
    /\ UNCHANGED <<sv, nv, wk, disk>>

UiNext ==
    \/ UiOpenFile
    \/ UiSliderChanged
    \/ UiSpinBoxChanged
    \/ UiInterleavedChannelsChanged
    \/ UiSaveFile

UiSpec == UiInit /\ [][UiNext]_vars

(***************************************************************************)
(* MainWindow::saveCurrentFile with the worker thread of                   *)
(* performSaveWithProgress.  The GUI thread starts the thread and polls    *)
(* isRunning(), handling events in between: the cancel button (a direct    *)
(* call of TiffSaveWorker::cancel) and the queued finished signal.  The    *)
(* worker thread runs doSave, that is the steps of saveWithMetadata with   *)
(* the callback returning !m_cancelled, emits finished and enters its      *)
(* event loop, which the handler's quit() ends.  The file in the temporary *)
(* directory is looked at only after the worker has emitted, so the model  *)
(* sets what it holds at that step.  The QThread object is taken to live   *)
(* until the wait loop has ended.                                          *)
(***************************************************************************)
\* the files saved in the save runs: two planes, so that there is a step
\* between two plane writes
SaveFiles == {f \in UiFiles : f.z = 2 /\ f.c = 1 /\ f.t = 1}

\* onOpenFile while no save runs; destExists: a <basename>.ome.tiff lies next
\* to the raw TIFF
SaveOpenFile ==
    /\ wk.pc \in {"idle", "returned"}
    /\ \E f \in SaveFiles, destExists \in BOOLEAN :
          /\ f.ome => ~destExists
          /\ openFile(f, FileStore(f), TRUE)
          /\ disk' = [NoDisk EXCEPT !["orig"] = "image",
                                    !["dest"] = IF destExists THEN "other" ELSE "none"]
    /\ wk' = NoWorker
    /\ sv' = SaveIdle
    /\ last' = Call("openFile", 0, 0, 0, 0, TRUE, "", 0)
    /\ UNCHANGED nv

\* saveCurrentFile(quicksave) up to thread->start(); overwrite: the answer to
\* the question about an existing destination; tempOk: tempDir.isValid().
\* Without an open image it warns and returns with nothing changed.
SaveCurrentFile ==
    /\ wk.pc = "idle"
    /\ d.reader
    /\ \E quicksave \in BOOLEAN, overwrite \in BOOLEAN, tempOk \in BOOLEAN :
          LET w0 == [NoWorker EXCEPT !.quicksave = quicksave,
                                     !.wasOmeTiff = d.isOmeTiff,
                                     !.dest = IF d.isOmeTiff THEN "orig" ELSE "dest",
                                     !.before = disk]
              asked == ~d.isOmeTiff /\ disk["dest"] # "none"
          IN  wk' = IF (asked /\ ~overwrite) \/ ~tempOk
                    THEN [w0 EXCEPT !.pc = "returned"]
                    ELSE [w0 EXCEPT !.pc = "waiting", !.thread = "started",
                                    !.worker = "ready"]
    /\ last' = Call("saveCurrentFile", 0, 0, 0, 0, TRUE, "", 0)
    /\ UNCHANGED <<d, rd, sv, ms, nv, mw, disk>>

\* the worker thread inside doSave: one step of saveWithMetadata, the progress
\* callback returning !m_cancelled.load()
SaveWorkerStep ==
    /\ wk.thread = "started" /\ wk.worker = "ready"
    /\ \/ \E fail \in {"none", "metadata", "setId"} : saveBegin(fail, "new")
       \/ SaveReadPlane
       \/ SaveWritePlane
       \/ saveProgress(~wk.m_cancelled)
       \/ SaveClose

\* doSave after saveWithMetadata returned: emit finished(true, "") or
\* finished(false, result.error()), queued for the GUI thread
DoSaveEmitFinished ==
    /\ wk.thread = "started" /\ wk.worker = "ready"
    /\ sv.pc = "done"
    /\ wk' = [wk EXCEPT !.worker = "emitted", !.emitted = @ + 1, !.queued = TRUE,
                        !.ok = (sv.result = "ok"),
                        !.message = IF sv.result = "ok" THEN "" ELSE sv.message,
                        !.result = sv.result, !.observed = sv.cancelled]
    /\ disk' = [disk EXCEPT !["temp"] = IF sv.result = "ok" THEN "copy"
                                        ELSE IF sv.opened THEN "partial" ELSE "none"]
    /\ sv' = SaveIdle
    /\ last' = Call("doSave", 0, 0, 0, 0, sv.result = "ok", sv.message, 0)
    /\ UNCHANGED <<d, rd, ms, nv, mw>>

\* the handler of finished that never calls thread->quit()
OnWorkerFinished_noQuit ==
    /\ wk.pc = "waiting"
    /\ wk.queued
    /\ wk' = [wk EXCEPT !.queued = FALSE, !.success = wk.ok,
                        !.errorMessage = wk.message, !.m_cancelled = TRUE]
    /\ UNCHANGED <<d, rd, last, sv, ms, nv, mw, disk>>

\* processEvents() delivers finished(ok, error) to the lambda of
\* performSaveWithProgress: success, errorMessage, progressDlg->close() (whose
\* close event emits canceled, so cancel() runs), thread->quit()
OnWorkerFinished ==
    /\ wk.pc = "waiting"
    /\ wk.queued
    /\ wk' = [wk EXCEPT !.queued = FALSE, !.success = wk.ok,
                        !.errorMessage = wk.message, !.m_cancelled = TRUE,
                        !.exited = TRUE]
    /\ UNCHANGED <<d, rd, last, sv, ms, nv, mw, disk>>

\* QThread::run after doSave returned: exec(), which returns at once when
\* quit() was called before it, or when quit() is called during it
ThreadRun ==
    /\ \/ wk.thread = "started" /\ wk.worker = "emitted"
       \/ wk.thread = "exec" /\ wk.exited
    /\ wk' = [wk EXCEPT !.thread = IF wk.exited THEN "finished" ELSE "exec"]
    /\ UNCHANGED <<d, rd, last, sv, ms, nv, mw, disk>>

\* a cancel() that aborts the save where it stands
SaveCancel_interrupts ==
    /\ wk.pc = "waiting"
    /\ ~wk.m_cancelled
    /\ ~wk.exited
    /\ wk' = [wk EXCEPT !.m_cancelled = TRUE,
                        !.cancelAt = IF wk.worker = "ready" THEN sv.pc ELSE "emitted"]
    /\ sv' = IF wk.worker = "ready" /\ sv.pc # "idle"
             THEN [sv EXCEPT !.pc = "done", !.result = "error",
                             !.message = "Save cancelled", !.cancelled = TRUE]
             ELSE sv
    /\ UNCHANGED <<d, rd, last, ms, nv, mw, disk>>

\* processEvents() delivers a click on Cancel while the dialog is open:
\* TiffSaveWorker::cancel() on the GUI thread
SaveCancel ==
    /\ wk.pc = "waiting"
    /\ ~wk.m_cancelled
    /\ ~wk.exited
    /\ wk' = [wk EXCEPT !.m_cancelled = TRUE,
                        !.cancelAt = IF wk.worker = "ready" THEN sv.pc ELSE "emitted"]
    /\ UNCHANGED <<d, rd, last, sv, ms, nv, mw, disk>>

\* the wait loop has ended (isRunning() is false): performSaveWithProgress
\* returns success and saveCurrentFile runs to its end.  removeOk, renameOk,
\* deleteOk: the outcomes of QFile::remove(dest), QFile::rename(temp, dest)
\* (which also fails when dest still exists) and QFile::remove(orig);
\* reopened: whether openFile succeeds.  tempDir removes the temporary file.
SaveCurrentFileReturn ==
    /\ wk.pc = "waiting"
    /\ wk.thread = "finished"
    /\ \E removeOk \in BOOLEAN, renameOk \in BOOLEAN, deleteOk \in BOOLEAN,
          reopened \in BOOLEAN :
          IF ~wk.success
          THEN /\ wk' = [wk EXCEPT !.pc = "returned"]
               /\ disk' = [disk EXCEPT !["temp"] = "none"]
               /\ UNCHANGED <<d, rd, mw, ms>>
          ELSE LET k1 == IF removeOk THEN [disk EXCEPT ![wk.dest] = "none"] ELSE disk
                   renamed == renameOk /\ k1[wk.dest] = "none"
                   k2 == IF renamed
                         THEN [k1 EXCEPT ![wk.dest] = k1["temp"], !["temp"] = "none"]
                         ELSE k1
                   k3 == IF ~wk.wasOmeTiff /\ ~wk.quicksave /\ deleteOk
                         THEN [k2 EXCEPT !["orig"] = "none"] ELSE k2
                   st == modifiedMeta(d, ms.store, getMetadata(ms.widget))
                   f == [ome |-> TRUE, z |-> st.sizeZ, c |-> st.sizeC, t |-> st.sizeT,
                         order |-> IF ms.store.real /\ d.isOmeTiff
                                   THEN rd.file.order ELSE "XYZCT"]
               IN  /\ openFile(f, st, reopened)
                   /\ disk' = [k3 EXCEPT !["temp"] = "none"]
                   /\ wk' = [wk EXCEPT !.pc = "returned", !.renamed = renamed]
    /\ last' = Call("saveCurrentFile", 0, 0, 0, 0, wk.success, wk.errorMessage, 0)
    /\ UNCHANGED <<sv, nv>>

SaveNext ==
    \/ SaveOpenFile
    \/ SaveCurrentFile
    \/ SaveWorkerStep
    \/ DoSaveEmitFinished
    \/ ThreadRun
    \/ OnWorkerFinished
    \/ SaveCancel
    \/ SaveCurrentFileReturn

SaveSpec == UiInit /\ [][SaveNext]_vars

\* the worker thread and the GUI thread's wait loop keep running: the
\* operating system schedules the thread, the loop polls every 10 ms
FairSaveSpec ==
    /\ SaveSpec
    /\ WF_vars(SaveWorkerStep)
    /\ WF_vars(DoSaveEmitFinished)
    /\ WF_vars(ThreadRun)
    /\ WF_vars(OnWorkerFinished)
    /\ WF_vars(SaveCurrentFileReturn)

(***************************************************************************)
(* Properties.                                                             *)
(***************************************************************************)
Range(n) == 0..(n - 1)

\* the last call was a successful setInterleavedChannelCount(n), n >= 1, on an open raw file
AfterSetInterleaved ==
    /\ last.op = "setInterleavedChannelCount" /\ last.ok /\ last.n >= 1
    /\ d.reader /\ ~d.isOmeTiff

\* getIndex(., ., t) maps [0, rawImageCount/n) x [0, n) one-to-one onto [0, rawImageCount)
IndexBijection(t) ==
    LET n == d.interleavedChannels
        zs == Range(d.rawImageCount \div n)
        cs == Range(n)
    IN  /\ \A z \in zs, c \in cs : getIndexValue(z, c, t) \in Range(d.rawImageCount)
        /\ \A z1 \in zs, z2 \in zs, c1 \in cs, c2 \in cs :
              getIndexValue(z1, c1, t) = getIndexValue(z2, c2, t) => (z1 = z2 /\ c1 = c2)
        /\ \A i \in Range(d.rawImageCount) :
              \E z \in zs, c \in cs : getIndexValue(z, c, t) = i

\* C1 (as stated): on a raw file, after setInterleavedChannelCount(n) for any
\* n >= 1 dividing rawImageCount, getIndex(z, c, t) over z < rawImageCount/n,
\* c < n is a bijection onto [0, rawImageCount).
C1_Original ==
    (AfterSetInterleaved /\ d.rawImageCount % d.interleavedChannels = 0)
        => IndexBijection(0)

\* C1 (amended): the bijection holds for every n >= 2 dividing rawImageCount,
\* at every t; for n = 1 the indices are the decoder's own and the bijection
\* over z < rawImageCount holds when the decoder reports rawSizeZ = rawImageCount.
C1_InterleavedBijection ==
    (AfterSetInterleaved /\ d.rawImageCount % d.interleavedChannels = 0)
        => /\ d.interleavedChannels > 1 => \A t \in Times : IndexBijection(t)
           /\ (d.interleavedChannels = 1 /\ d.rawSizeZ = d.rawImageCount) => IndexBijection(0)

C1_Witness ==
    /\ AfterSetInterleaved
    /\ d.interleavedChannels = 2 /\ d.rawImageCount = 4 /\ d.sizeZ = 2
    /\ getIndexValue(1, 1, 0) = 3

\* C2: at all times imageCount() equals rawImageCount().
C2_ImageCountIsRaw == d.imageCount = d.rawImageCount

\* C3: with a non-OME file open and interleavedChannelCount n > 1 the effective
\* dimensions are sizeC = n, sizeZ = rawImageCount / n, sizeT = 1; in every
\* other case the effective dimensions equal the raw ones field for field.
C3_EffectiveDimensions ==
    IF d.reader /\ ~d.isOmeTiff /\ d.interleavedChannels > 1
    THEN /\ d.sizeC = d.interleavedChannels
         /\ d.sizeZ = d.rawImageCount \div d.interleavedChannels
         /\ d.sizeT = 1
         /\ d.imageCount = d.rawImageCount
    ELSE /\ d.sizeZ = d.rawSizeZ
         /\ d.sizeT = d.rawSizeT
         /\ d.sizeC = d.rawSizeC
         /\ d.imageCount = d.rawImageCount

\* a step that is the call setInterleavedChannelCount(n), n >= 1, with n not
\* dividing a positive rawImageCount
NonDivisorCall ==
    /\ last'.op = "setInterleavedChannelCount" /\ last'.n >= 1
    /\ d.rawImageCount > 0 /\ d.rawImageCount % last'.n # 0

\* C4 (as stated): setInterleavedChannelCount(n) fails with InvalidArgument
\* whenever rawImageCount > 0 and n does not divide it, and leaves the
\* interleaved channel count and all dimensions as they were.
C4_Original ==
    [][NonDivisorCall => (~last'.ok /\ last'.err = "InvalidArgument" /\ d' = d)]_vars

\* C4 (amended): the same for a handle that is not a native OME-TIFF; on a
\* native OME-TIFF the call fails with UnsupportedOperation instead, the
\* state again unchanged.
C4_NonDivisorRejected ==
    [][NonDivisorCall =>
          /\ ~last'.ok /\ d' = d
          /\ last'.err = IF d.isOmeTiff THEN "UnsupportedOperation" ELSE "InvalidArgument"]_vars

C4_Witness ==
    /\ last.op = "setInterleavedChannelCount" /\ last.err = "InvalidArgument" /\ last.n = 3
    /\ d.reader /\ d.rawImageCount = 4 /\ d.interleavedChannels = 2 /\ d.sizeZ = 2

\* C5: setInterleavedChannelCount(n), n > 1, on an open native OME-TIFF fails
\* with UnsupportedOperation for every n and rawImageCount, and changes nothing.
C5_OmeRejected ==
    (last.op = "setInterleavedChannelCount" /\ last.n > 1 /\ d.reader /\ d.isOmeTiff)
        => /\ ~last.ok /\ last.err = "UnsupportedOperation"
           /\ d.interleavedChannels = 1

C5_Witness ==
    /\ last.op = "setInterleavedChannelCount" /\ last.n = 2
    /\ d.reader /\ d.isOmeTiff /\ d.rawImageCount = 4
    /\ last.err = "UnsupportedOperation"

\* C6: with interleaving active (n > 1, file not native OME) getIndex(z, c, t)
\* returns z * n + c whatever t is.
C6_InterleavedIndex ==
    (last.op = "getIndex" /\ d.reader /\ ~d.isOmeTiff /\ d.interleavedChannels > 1)
        => /\ last.ok
           /\ last.val = last.z * d.interleavedChannels + last.c

C6_Witness ==
    /\ last.op = "getIndex" /\ d.reader /\ ~d.isOmeTiff /\ d.interleavedChannels = 2
    /\ last.z = 1 /\ last.c = 1 /\ last.t = 1 /\ last.val = 3

\* the source plane stored at index i of the output file (Throws: none)
OutAt(i) ==
    LET ks == {k \in 1..Len(sv.writes) : sv.writes[k][1] = i}
    IN  IF ks = {} THEN Throws
        ELSE sv.writes[CHOOSE k \in ks : \A j \in ks : j <= k][2]

SaveSucceeded == sv.pc = "done" /\ sv.result = "ok"

\* C7: a completed saveWithMetadata writes output planes 0, 1, 2, ... in
\* increasing order and reads every source plane exactly once; interleaved,
\* output plane c*sizeZ + z holds raw plane z*n + c (t, then c, then z, Z
\* fastest); otherwise output plane i holds source plane i.
C7_PlaneOrder ==
    SaveSucceeded =>
        /\ Len(sv.writes) = d.rawImageCount
        /\ \A k \in 1..Len(sv.writes) : sv.writes[k][1] = k - 1
        /\ Len(sv.reads) = d.rawImageCount
        /\ \A i \in Range(d.rawImageCount) :
              Cardinality({k \in 1..Len(sv.reads) : sv.reads[k] = i}) = 1
        /\ IF sv.inter
           THEN \A z \in Range(d.sizeZ), c \in Range(d.sizeC) :
                   /\ OutAt(c * d.sizeZ + z) = z * d.interleavedChannels + c
                   /\ sv.reads[c * d.sizeZ + z + 1] = z * d.interleavedChannels + c
           ELSE \A i \in Range(d.rawImageCount) : OutAt(i) = i

C7_Witness ==
    /\ SaveSucceeded /\ sv.inter
    /\ d.interleavedChannels = 2 /\ d.sizeZ = 2
    /\ sv.reads = <<0, 2, 1, 3>>

\* the plane index of (z, c, t) in the output file, by its declared dimensions and order
OutputIndex(z, c, t) ==
    readerGetIndex([ome |-> TRUE, z |-> sv.metaZ, c |-> sv.metaC, t |-> sv.metaT,
                    order |-> sv.metaOrder], z, c, t)

\* C8: for a raw TIFF reinterpreted with n > 1 interleaved channels the saved
\* OME-TIFF declares sizeZ, sizeC, sizeT equal to the effective dimensions, in
\* XYZCT order, and the plane it stores at (z, c, 0) is the source plane
\* readPlane(z, c, 0) returns under the interleaved interpretation.
C8_DeinterleaveRoundTrip ==
    (SaveSucceeded /\ sv.inter) =>
        /\ sv.metaZ = d.sizeZ /\ sv.metaC = d.sizeC /\ sv.metaT = d.sizeT
        /\ sv.metaOrder = "XYZCT"
        /\ \A z \in Range(d.sizeZ), c \in Range(d.sizeC) :
              /\ readPlane(z, c, 0) # Throws
              /\ OutputIndex(z, c, 0) # Throws
              /\ OutAt(OutputIndex(z, c, 0)) = readPlane(z, c, 0)

C8_Witness ==
    /\ SaveSucceeded /\ sv.inter
    /\ sv.metaZ = 2 /\ sv.metaC = 2 /\ sv.metaT = 1
    /\ OutAt(OutputIndex(1, 0, 0)) = 2 /\ readPlane(1, 0, 0) = 2

\* C9: the progress callback is invoked after each plane write with (current,
\* total); once it returns false no further plane is written and the save
\* ends with a failed result, never success.
C9_ProgressAndCancel ==
    /\ sv.pc \in {"read", "write", "close"} => Len(sv.progress) = Len(sv.writes)
    /\ sv.pc = "progress" => Len(sv.progress) = Len(sv.writes) - 1
    /\ \A k \in 1..Len(sv.progress) : sv.progress[k] = <<k - 1, d.imageCount>>
    /\ sv.cancelled =>
          /\ sv.pc = "done" /\ sv.result = "error"
          /\ Len(sv.writes) = Len(sv.progress)

C9_Witness ==
    /\ sv.cancelled /\ sv.pc = "done" /\ sv.result = "error"
    /\ Len(sv.writes) = 2 /\ d.imageCount = 4

OutputFile ==
    IF ~sv.opened THEN "asBefore"
    ELSE IF sv.pc = "done" /\ sv.result = "ok" THEN "complete"
    ELSE "partial"

\* C11: when saveWithMetadata fails, the destination path it was given is not
\* left partially overwritten: the file at outputPath holds what it held
\* before the call.
C11_NoPartialOverwrite ==
    (sv.pc = "done" /\ sv.result = "error") => OutputFile = "asBefore"

\* the handle is in the closed state
ClosedState ==
    /\ ~d.reader /\ d.currentFilename = "" /\ d.interleavedChannels = 1
    /\ d.rawSizeX = 0 /\ d.rawSizeY = 0 /\ d.rawSizeZ = 0 /\ d.rawSizeT = 0
    /\ d.rawSizeC = 0 /\ d.rawImageCount = 0
    /\ d.sizeX = 0 /\ d.sizeY = 0 /\ d.sizeZ = 0 /\ d.sizeT = 0 /\ d.sizeC = 0
    /\ d.imageCount = 0

\* C12: after a failed open(), whatever made it fail, the handle is in the
\* closed state: not open, empty file name, every raw and effective dimension
\* 0, interleaved channel count 1.
C12_FailedOpenResets == (last.op = "open" /\ ~last.ok) => ClosedState

\* C13: getIndex, readPlaneByIndex and saveWithMetadata leave the decoder's
\* series/resolution cursor as they found it, on every exit path.
C13_CursorRestored ==
    [][/\ (last'.op \in {"getIndex", "readPlaneByIndex"} /\ d.reader)
            => (rd'.series = rd.series /\ rd'.resolution = rd.resolution)
       /\ (sv.pc = "done" /\ sv'.pc = "idle" /\ d.reader)
            => (rd.series = sv.oldSeries /\ rd.resolution = sv.oldResolution)]_vars

\* a step that is a non-interleaved getIndex(z, c, t) with (z, c, t) inside the file
PlainGetIndexCall ==
    /\ last'.op = "getIndex" /\ d.reader
    /\ ~(d.interleavedChannels > 1 /\ ~d.isOmeTiff)
    /\ readerGetIndex(rd.file, last'.z, last'.c, last'.t) # Throws

\* C14: a non-interleaved getIndex(z, c, t) returns the decoder's own index
\* for (z, c, t) and leaves both the decoder's series and its resolution as
\* they were before the call.
C14_GetIndexNoSideEffect ==
    [][PlainGetIndexCall =>
          /\ last'.ok
          /\ last'.val = readerGetIndex(rd.file, last'.z, last'.c, last'.t)
          /\ rd'.series = rd.series /\ rd'.resolution = rd.resolution]_vars

\* C15: the channels list of every ImageMetadata extracted from an open image
\* has exactly sizeC() entries.
C15_ChannelCount ==
    (ms.phase \in {"extracted", "reextracted"} /\ d.reader)
        => Len(ms.meta.channels) = d.sizeC

\* the fields of ImageMetadata that depend on a lookup
OwnedFields(lookup) ==
    CASE lookup \in {"sizeX", "sizeY", "sizeZ", "sizeC", "sizeT"} -> {lookup, "dataSizeBytes"}
      [] lookup = "pixelType" -> {"pixelType", "dataSizeBytes"}
      [] lookup = "physX" -> {"physSizeXNm"}
      [] lookup = "physY" -> {"physSizeYNm"}
      [] lookup = "physZ" -> {"physSizeZNm"}
      [] lookup = "objectiveSettingsID" -> {"numericalAperture", "lensImmersion"}
      [] lookup = "refractiveIndex" -> {"immersionRI"}
      [] lookup = "medium" -> {"embeddingMedium"}
      [] lookup = "channelCount" -> {"channels"}
      [] lookup \in ChannelLookups -> {"channels"}
      [] OTHER -> {lookup}

\* the fields of ChannelParams that depend on a per-channel lookup
OwnedChannelFields(lookup) ==
    CASE lookup = "acquisitionMode" -> {"acquisitionMode", "photonCount"}
      [] lookup = "excitation" -> {"exWavelengthNm"}
      [] lookup = "emission" -> {"emWavelengthNm"}
      [] lookup = "pinhole" -> {"pinholeSizeNm"}
      [] OTHER -> {lookup}

\* C16: when one lookup of extractMetadata fails, the field it feeds keeps
\* its default and every field that does not depend on it has the value it
\* has without the failure.
C16_IndependentLookups ==
    (ms.phase = "extracted" /\ ms.store.real /\ ms.fail # NoFail) =>
        LET ref == extractMetadata(d, ms.store, rd.file, NoFail)
            got == ms.meta
        IN  /\ \A g \in (DOMAIN ref) \ OwnedFields(ms.fail[1]) : got[g] = ref[g]
            /\ \A g \in OwnedFields(ms.fail[1]) \ {"imageName", "dataSizeBytes", "channels"} :
                  got[g] = DefaultMetadata[g]
            /\ ms.fail[1] \in ChannelLookups =>
                  /\ Len(got.channels) = Len(ref.channels)
                  /\ \A c \in 1..Len(ref.channels), g \in DOMAIN DefaultChannel :
                        (c # ms.fail[2] + 1 \/ g \notin OwnedChannelFields(ms.fail[1]))
                            => got.channels[c][g] = ref.channels[c][g]

\* the double x is v to within one unit in its last place
WithinUlp(x, v) ==
    LET diff == x.m - v * Pow2(x.k)
    IN  x.k >= 0 /\ diff >= -1 /\ diff <= 1

\* the saved file has been reopened and its metadata extracted
Reextracted == ms.phase = "reextracted" /\ ms.fail = NoFail

\* C17 (as stated): a physical size X edited to v nm, v > 0, is written as
\* v / 1000 micrometres and read back from the reopened file as exactly v nm;
\* v = 0 is not written, the stored size stays what it was.
C17_Original ==
    Reextracted =>
        IF ms.v > 0
        THEN /\ ms.store.physX = Quantity(FlDivInt(FlOfInt(ms.v), 1000), "um")
             /\ ms.meta.physSizeXNm = FlOfInt(ms.v)
        ELSE ms.store.physX = ms.src.physX

\* C17 (amended): the size read back is v nm to within the rounding of the
\* two double operations (one unit in the last place).
C17_PhysicalSizeRoundTrip ==
    Reextracted =>
        IF ms.v > 0
        THEN /\ ms.store.physX = Quantity(FlDivInt(FlOfInt(ms.v), 1000), "um")
             /\ WithinUlp(ms.meta.physSizeXNm, ms.v)
        ELSE ms.store.physX = ms.src.physX

C17_Witness ==
    /\ Reextracted /\ ms.v = 650
    /\ ms.store.physX.unit = "um"
    /\ ms.meta.physSizeXNm = FlOfInt(650)

\* the visitor has converted a buffer of the given pixel types
Visited(types) == nv.phase = "image" /\ nv.buf.type \in types

\* the rescaled value of v for a plane with the given minimum and maximum
Rescaled(v, minVal, maxVal) == ((v - minVal) * UInt16Max) \div (maxVal - minVal)

\* C18: a 32-bit unsigned or signed plane with max > min is rescaled pixel by
\* pixel to (value - min) * 65535 / (max - min), within [0, 65535], the
\* minimum to 0 and the maximum to 65535; a constant plane becomes all zero.
C18_Rescale32 ==
    Visited({"uint32", "int32"}) =>
        LET src == nv.buf.data
            minVal == SeqMin(src)
            maxVal == SeqMax(src)
        IN  \A i \in 1..PlaneSize :
               /\ nv.img.data[i] \in 0..UInt16Max
               /\ nv.img.data[i] = IF maxVal > minVal THEN Rescaled(src[i], minVal, maxVal)
                                   ELSE 0

\* every pixel of the plane handed to the visitor has the value v
ConstantPlane(v) == \A i \in 1..PlaneSize : nv.buf.data[i] = v

\* C19 (as stated): a 16-bit plane whose pixels all equal v is converted to an
\* all-zero image, for every v.
C19_Original ==
    Visited({"uint16", "int16"}) =>
        \A v \in PixelValues(nv.buf.type) :
            ConstantPlane(v) => \A i \in 1..PlaneSize : nv.img.data[i] = 0

\* C19 (amended): a 16-bit plane whose pixels all equal v is converted to a
\* constant 16-bit image: every pixel is v for an unsigned plane and
\* v + 32768 for a signed one, so it is all zero only for the least value
\* of the type.
C19_ConstantPlane16 ==
    Visited({"uint16", "int16"}) =>
        \A v \in PixelValues(nv.buf.type) :
            ConstantPlane(v) =>
                /\ nv.img.bytesPerChannel = 2
                /\ \A i \in 1..PlaneSize :
                      nv.img.data[i] = IF nv.buf.type = "uint16" THEN v ELSE v + 32768

C19_Witness ==
    /\ Visited({"int16"}) /\ ConstantPlane(-1)
    /\ \A i \in 1..PlaneSize : nv.img.data[i] = 32767

\* C20: an 8-bit unsigned plane is converted to an image of width * height
\* bytes, one channel, one byte per channel, byte i equal to input byte i.
C20_Uint8Identity ==
    Visited({"uint8"}) =>
        /\ Len(nv.img.data) = nv.img.width * nv.img.height
        /\ nv.img.width = PlaneW /\ nv.img.height = PlaneH
        /\ nv.img.channels = 1 /\ nv.img.bytesPerChannel = 1
        /\ \A i \in 1..Len(nv.img.data) : nv.img.data[i] = nv.buf.data[i]

C20_Witness ==
    /\ Visited({"uint8"})
    /\ nv.buf.data[1] = 255 /\ nv.buf.data[2] = 0 /\ nv.buf.data[3] = 128
    /\ nv.img.data[1] = 255 /\ nv.img.data[2] = 0 /\ nv.img.data[3] = 128

\* a step that is a call of setInterleavedChannelCount returning success
SetInterleavedSucceeds ==
    /\ sv.pc = "idle" /\ last'.op = "setInterleavedChannelCount" /\ last'.ok

\* the fields of the handle setInterleavedChannelCount may not touch
FrameFields ==
    {"reader", "currentFilename", "isOmeTiff", "series", "resolution",
     "rawSizeX", "rawSizeY", "rawSizeZ", "rawSizeT", "rawSizeC", "rawImageCount",
     "rawRGBChannelCount"}

\* C21: a successful setInterleavedChannelCount(n) stores n (at least 1) and
\* recomputes the effective dimensions from the raw ones; raw dimensions,
\* format flag, file name and decoder cursor are unchanged; a second call
\* with the same n succeeds again and changes nothing.
C21_SetInterleavedFrame ==
    [][SetInterleavedSucceeds =>
          LET n == IF last'.n < 1 THEN 1 ELSE last'.n
          IN  /\ d'.interleavedChannels = n
              /\ \A g \in FrameFields : d'[g] = d[g]
              /\ rd' = rd
              /\ d'.sizeX = d.rawSizeX /\ d'.sizeY = d.rawSizeY
              /\ d'.imageCount = d.rawImageCount
              /\ d'.rgbChannelCount = d.rawRGBChannelCount
              /\ IF n > 1
                 THEN d'.sizeC = n /\ d'.sizeZ = d.rawImageCount \div n /\ d'.sizeT = 1
                 ELSE d'.sizeC = d.rawSizeC /\ d'.sizeZ = d.rawSizeZ /\ d'.sizeT = d.rawSizeT
              /\ (last.op = "setInterleavedChannelCount" /\ last.ok /\ last.n = last'.n)
                    => (d' = d /\ last' = last)]_vars

C21_Witness ==
    /\ last.op = "setInterleavedChannelCount" /\ last.ok /\ last.n = 2
    /\ d.reader /\ rd.file.t = 2 /\ rd.file.z = 2 /\ rd.series = 1
    /\ d.interleavedChannels = 2 /\ d.sizeC = 2 /\ d.sizeZ = 2 /\ d.sizeT = 1
    /\ d.rawSizeT = 2

\* the last call was getIndex(z, c, t) under interleaving with z or c outside
\* the effective dimensions
OutOfRangeGetIndex ==
    /\ last.op = "getIndex" /\ d.reader /\ ~d.isOmeTiff /\ d.interleavedChannels > 1
    /\ (last.z >= d.sizeZ \/ last.c >= d.sizeC)

\* C23 (as stated): under interleaving getIndex accepts every out-of-range
\* coordinate (z >= sizeZ or c >= sizeC) silently and returns a physical index
\* outside [0, rawImageCount).
C23_Original ==
    OutOfRangeGetIndex => (last.ok /\ last.val \notin Range(d.rawImageCount))

\* C23 (amended): the call is accepted silently and returns z * n + c; the
\* index is outside [0, rawImageCount) whenever z >= sizeZ; for c >= sizeC
\* and z < sizeZ it may lie inside the range, where it is the index of the
\* in-range plane (z + c / n, c mod n).
C23_NoBoundsValidation ==
    OutOfRangeGetIndex =>
        LET n == d.interleavedChannels
        IN  /\ last.ok
            /\ last.val = last.z * n + last.c
            /\ last.z >= d.sizeZ => last.val >= d.rawImageCount
            /\ last.val < d.rawImageCount =>
                  /\ last.z < d.sizeZ /\ last.c >= d.sizeC
                  /\ last.z + (last.c \div n) < d.sizeZ
                  /\ last.val = getIndexValue(last.z + (last.c \div n), last.c % n, 0)

C23_Witness ==
    /\ OutOfRangeGetIndex
    /\ d.interleavedChannels = 2 /\ d.rawImageCount = 4 /\ d.sizeZ = 2
    /\ last.z = 0 /\ last.c = 3 /\ last.ok /\ last.val = 3

\* the first objective of the store with the image's objective-settings ID,
\* instruments in order and objectives in order within each (<<>>: none)
FirstObjective(st) ==
    LET hits == {i \in 1..Len(st.instruments) :
                    FirstMatch(st.instruments[i], st.objectiveSettingsID) # 0}
    IN  IF hits = {} THEN <<>>
        ELSE LET i == CHOOSE h \in hits : \A g \in hits : h <= g
             IN  <<st.instruments[i][FirstMatch(st.instruments[i], st.objectiveSettingsID)]>>

\* C24: extractMetadata takes numerical aperture and lens immersion from the
\* first objective (instruments in order, objectives in order) whose ID is the
\* image's objective-settings ID; no later match overrides it; with no match
\* both fields keep their defaults.
C24_FirstObjectiveWins ==
    (ms.phase = "extracted" /\ ms.store.real /\ ms.fail = NoFail) =>
        LET first == FirstObjective(ms.store)
        IN  IF first = <<>>
            THEN /\ ms.meta.numericalAperture = DefaultMetadata.numericalAperture
                 /\ ms.meta.lensImmersion = DefaultMetadata.lensImmersion
            ELSE /\ ms.meta.numericalAperture = first[1].na
                 /\ ms.meta.lensImmersion = first[1].immersion

\* C29: whenever isOpen() is false, sizeX(), sizeY(), sizeZ(), sizeT(),
\* sizeC() and imageCount() are 0 and interleavedChannelCount() is 1, after
\* any sequence of open, close and setInterleavedChannelCount calls.
C29_ClosedIsZero ==
    ~d.reader =>
        /\ d.sizeX = 0 /\ d.sizeY = 0 /\ d.sizeZ = 0 /\ d.sizeT = 0 /\ d.sizeC = 0
        /\ d.imageCount = 0
        /\ d.interleavedChannels = 1

\* the fields of ImageMetadata that come from the image
ImageDerivedFields ==
    {"sizeX", "sizeY", "sizeZ", "sizeC", "sizeT", "pixelType", "dataSizeBytes", "imageName"}

\* C22: loading a parameter file into the widget leaves sizeX, sizeY, sizeZ,
\* sizeC, sizeT, pixelType, dataSizeBytes and imageName of the widget's
\* metadata as they were before the load, and the channel list keeps its
\* length, the channel count of the current image's metadata.
C22_LoadKeepsImageFields ==
    [][last'.op = "loadParametersFromFile" =>
          LET was == getMetadata(ms.widget)
              now == getMetadata(ms'.widget)
          IN  /\ \A g \in ImageDerivedFields : now[g] = was[g]
              /\ Len(now.channels) = Len(was.channels)]_vars

C22_Witness ==
    /\ last.op = "loadParametersFromFile" /\ last.ok /\ last.n = 1
    /\ getMetadata(ms.widget).physSizeXNm = JsonSizeNm
    /\ getMetadata(ms.widget).sizeC = 2 /\ getMetadata(ms.widget).imageName = "img"
    /\ Len(getMetadata(ms.widget).channels) = 2
    /\ getMetadata(ms.widget).channels[1].name = "saved"
    /\ getMetadata(ms.widget).channels[2].name = "dye"

\* C27: after every handled UI event the position used to read the displayed
\* plane (m_currentZ, m_currentC, m_currentT) equals the values the Z, C and
\* T sliders show.
C27_PositionIsSliders == \A a \in Axes : mw.m_current[a] = mw.slider[a]

\* C28: whenever an image is open, the interleaved-channel spin box shows
\* OMETiffImage::interleavedChannelCount().
C28_SpinBoxIsCount == d.reader => mw.spinCInterleaveCount = d.interleavedChannels

\* the positions of the worker thread inside doSave up to the return of saveWithMetadata
Saving == {"idle", "read", "write", "progress", "close"}

\* saveCurrentFile has returned without closing the image or touching the
\* original and destination files
SaveLeftAlone ==
    /\ d.reader
    /\ disk["orig"] = wk.before["orig"]
    /\ disk["dest"] = wk.before["dest"]

\* C25 as stated: a cancel raised at any moment while the worker thread is
\* saving makes the worker emit finished(false, ...) and performSaveWithProgress
\* return false, and saveCurrentFile leaves the image open and the files alone
C25_Original ==
    (wk.pc = "returned" /\ wk.cancelAt \in Saving)
        => (~wk.ok /\ ~wk.success /\ SaveLeftAlone)

\* C25: cancel() only sets the flag and leaves the save in flight alone: a
\* plane write that has begun is completed (or throws) whatever the flag; the
\* flag is observed only in a progress callback, where the loop stops with an
\* error; and when a callback has observed it the worker emits one
\* finished(false, ...), performSaveWithProgress returns false and
\* saveCurrentFile leaves the image open and the original and destination
\* files as they were.  A cancel raised after the last callback is not observed.
C25_CooperativeCancel ==
    [][/\ (wk'.m_cancelled /\ ~wk.m_cancelled) => sv' = sv
       /\ (sv.pc = "write" /\ sv' # sv)
             => \/ sv'.pc = "progress" /\ Len(sv'.writes) = Len(sv.writes) + 1
                \/ sv'.pc = "done" /\ sv'.threw = "saveBytes"
       /\ (sv'.cancelled /\ ~sv.cancelled) => (sv.pc = "progress" /\ wk.m_cancelled)
       /\ (sv.pc = "progress" /\ wk.m_cancelled /\ sv' # sv)
             => (sv'.pc = "done" /\ sv'.result = "error" /\ sv'.cancelled)
       /\ (wk'.pc = "returned" /\ wk'.observed)
             => (~wk'.ok /\ wk'.emitted = 1 /\ ~wk'.success /\ SaveLeftAlone')
      ]_vars

\* a case of C25: the cancel came while a plane write was in flight, a
\* callback observed it and saveCurrentFile has returned
C25_Witness ==
    wk.pc = "returned" /\ wk.cancelAt = "write" /\ wk.observed /\ wk.emitted = 1

\* what a path holds when a complete copy of the image is there
Complete == {"image", "copy"}

\* C26: when saveCurrentFile has returned, a complete copy of the image lies
\* at the original path or at the destination path, whatever the outcomes of
\* the save, of removing the old destination, of the rename and of the reopen
C26_ImageNeverLost ==
    wk.pc = "returned" => (disk["orig"] \in Complete \/ disk[wk.dest] \in Complete)

\* C30: performSaveWithProgress terminates: once the thread is started the
\* wait loop ends and saveCurrentFile goes on to return; the worker emits
\* finished once and never twice; the loop ends only after the handler of
\* finished has called quit(); and the value returned (success) is true
\* exactly when saveWithMetadata returned success
C30_SaveTerminates ==
    /\ [](wk.emitted <= 1)
    /\ []((wk.thread = "finished")
            => (wk.emitted = 1 /\ wk.exited /\ ~wk.queued
                /\ wk.success = (wk.result = "ok")))
    /\ (wk.pc = "waiting") ~> (wk.pc = "returned" /\ wk.thread = "finished")

\* a case of C30: a save that failed without a cancel has returned false
C30_Witness ==
    /\ wk.pc = "returned" /\ wk.thread = "finished"
    /\ wk.result = "error" /\ ~wk.observed /\ ~wk.success

====
